---- MODULE Spec2Model ----
(***************************************************************************)
(* Engagement polling and deduplication of the Twitter loyalty workers:     *)
(* the multi-tenant router (src/src/router.js) and the mention and reply    *)
(* polls of the single-tenant worker (src/src/index.js).                    *)
(*                                                                          *)
(* The state is the worker's KV namespace (high water marks, processed      *)
(* markers, liker/retweeter caches) and the position and locals of the      *)
(* poll invocation that is running.  A behaviour follows the requests to    *)
(* one endpoint: one engagement type of one tenant of the router, or of     *)
(* the single-tenant worker, whose keys are written under Handle.  One      *)
(* action is one step of a handler: the poll up to its loop, one turn of    *)
(* the loop, the statements after the loop.  The upstream Twitter API and   *)
(* the downstream reward service are inputs: every answer they can give is  *)
(* drawn with \E.                                                           *)
(*                                                                          *)
(* The specifications share the actions of the polls.  Spec follows the    *)
(* manual triggers of one endpoint, SpecCrash adds an invocation that is    *)
(* stopped inside its loop.  SpecDispatch starts before the only engagement *)
(* of a batch with the two channels of the reward service fixed to one      *)
(* answer each.  SpecCycle is one run of scheduled(): the brands in turn,   *)
(* and for each active brand the four polls of pollAllEngagements.          *)
(* SpecCycleLive is SpecCycle with every await coming back.  SpecOverlap   *)
(* runs two invocations of one mention or reply poll at once, one await at  *)
(* a time.  SpecPaging answers the mention search from the engagements the  *)
(* upstream holds.  SpecRoute puts the fetch handlers of both workers in    *)
(* front of the polls.  SpecActors runs the like and retweet polls of one   *)
(* post over the stores that earlier polls can have left.                   *)
(*                                                                          *)
(* The other components have a specification each: SpecVault applies        *)
(* decryptCredential and getDecryptedBearerToken to a stored credential,    *)
(* SpecPolling runs the quote, hashtag and thread polls of src/polling,     *)
(* SpecStreak calls the streak client with every answer of its service.     *)
(*                                                                          *)
(* Tweet and user ids are decimal strings, modelled as sequences of digits. *)
(***************************************************************************)
EXTENDS Naturals, Integers, Sequences, FiniteSets, TLC

(***************************************************************************)
(* Bounds of the model                                                      *)
(***************************************************************************)
\* polls started in one behaviour
MaxPolls == 2
\* tweets in one upstream search page (max_results=10 in the code)
MaxBatch == 4

\* brand slugs with a "brand:<slug>" configuration
Tenants == {"acme", "globex"}
\* the twitterHandle of the single-tenant worker's brand
Handle == "brand"
\* tweet ids of different digit length: "8" < "9" < "10" < "11" as integers
Ids == {<<8>>, <<9>>, <<1, 0>>, <<1, 1>>}
\* a reply that the search returns although it answers another account
ForeignId == <<7>>
\* the brand's own recent tweets and the users who act on them
Posts == {<<5>>, <<6>>}
Actors == {<<1>>, <<2>>}

(***************************************************************************)
(* Program constants                                                        *)
(***************************************************************************)
FirstRunLimit == 3
\* max_results=10 of the recent search
MaxResults == 10
\* expirationTtl, in seconds, of a processed marker and of the cached list
\* of the likers / retweeters of a post
ProcessedTtl == 86400 * 30
CheckedTtl == 86400 * 7

CursorTypes == {"mention", "reply"}
ActorTypes == {"like", "retweet"}
Types == CursorTypes \cup ActorTypes

\* KV.get answers null for a missing key; `!lastTweetId` holds for null
Null == <<>>

(***************************************************************************)
(* Strings                                                                  *)
(***************************************************************************)
RECURSIVE BigInt(_)
BigInt(s) ==
    IF s = <<>> THEN 0 ELSE 10 * BigInt(SubSeq(s, 1, Len(s) - 1)) + s[Len(s)]

\* `like_${tweet.id}_${liker.id}`: the type is part of the marker key, the
\* separator "_" is the digit -1
EventId(post, actor) == post \o <<-1>> \o actor

Range(s) == {s[i] : i \in 1..Len(s)}

\* the element of a non-empty list of ids that is numerically greatest
MaxId(ids) ==
    CHOOSE m \in Range(ids) : \A x \in Range(ids) : BigInt(m) >= BigInt(x)

Injective(s) == \A i, j \in 1..Len(s) : s[i] = s[j] => i = j

SeqsOf(S, n) == {s \in UNION {[1..k -> S] : k \in 0..n} : Injective(s)}

(***************************************************************************)
(* Keys of the KV namespace                                                 *)
(***************************************************************************)
CursorKeys == (Tenants \cup {Handle}) \X CursorTypes
CacheKeys == Tenants \X ActorTypes \X Posts
EventIds == {EventId(p, a) : p \in Posts, a \in Actors}
Keys ==
    ((Tenants \cup {Handle}) \X CursorTypes \X Ids)
        \cup (Tenants \X ActorTypes \X EventIds)

\* the dispatches recorded for a key
Sends(count, key) == IF key \in DOMAIN count THEN count[key] ELSE 0

\* one more dispatch for a key
Sent(count, key) ==
    [k \in DOMAIN count \cup {key} |->
        IF k = key THEN Sends(count, key) + 1 ELSE count[k]]

\* a function without one key of its domain
Without(f, key) == [k \in DOMAIN f \ {key} |-> f[k]]

NoResult == [found |-> 0, rewarded |-> 0, failed |-> 0, errors |-> <<>>]

(***************************************************************************)
(* Configuration                                                            *)
(***************************************************************************)
\* the value stored under brand:<slug>: not JSON, is_active false, no
\* encrypted_bearer_token, a token that does not decrypt, no twitter_handle,
\* or complete
ConfigKinds == {"corrupt", "inactive", "noToken", "badToken", "noHandle", "ok"}

\* the configurations with which a manual trigger reaches a poll:
\* loadBrandConfig parses the value and does not look at is_active
TriggerConfigs == {"noToken", "badToken", "noHandle", "ok"}

\* the single-tenant worker: env.TWITTER_BEARER_TOKEN and the handle of
\* getBrandConfig
WorkerConfigs == {"noToken", "noHandle", "ok"}

Bearer == <<"bearer">>

\* a vault adapter that hands on whatever is stored when it cannot decrypt
getDecryptedBearerTokenUnchecked(brandConfig, key) ==
    IF brandConfig = "noToken" THEN Null ELSE Bearer

\* getDecryptedBearerToken: null without encrypted_bearer_token, without
\* ENCRYPTION_PRIVATE_KEY and when decryptCredential throws
getDecryptedBearerToken(brandConfig, key) ==
    IF brandConfig = "noToken" THEN Null
    ELSE IF ~key THEN Null
    ELSE IF brandConfig = "badToken" THEN Null
    ELSE Bearer

\* brandConfig.twitter_handle
HasHandle(brandConfig) == brandConfig # "noHandle"

\* one upstream request and the status of its answer
Request(api, status) == [api |-> api, status |-> status]

\* the reward service answers each event in any way
AnyAnswer == [binding |-> "any", http |-> "any"]

\* the results object pollAllEngagements starts with
InitialResult == [found |-> 0, rewarded |-> 0, errors |-> <<>>]
NoTypeResults == [ty \in Types |-> InitialResult]

\* no second invocation is running
NoInvocation == [pc |-> "idle"]

VARIABLES
    kvHighwater,    \* highwater:<type>s:<brand>  -> tweet id or Null
    kvProcessed,    \* the processed:<brand>:<type>:<id> keys that exist
    kvChecked,      \* likers_checked / retweeters_checked:<brand>:<post>
    sendCount,      \* sendRewardEvent calls per key since its marker last expired
    polls,          \* polls started
    pc,             \* position of the running invocation
    brandSlug, etype,
    lastTweetId,    \* the high water mark read at the start of the poll
    upstream,       \* data.data of the search response
    tweets,         \* the batch the loop runs over (filtered, truncated)
    next,           \* index in tweets of the tweet the loop handles next
    newestTweetId,
    brandTweets,    \* the brand's recent tweets
    nextTweet,      \* index in brandTweets of the tweet whose likers are fetched next
    likers,         \* new likers / retweeters of brandTweets[nextTweet - 1]
    nextLiker,      \* index in likers of the liker handled next
    allLikers,      \* data.data of the last liking_users / retweeted_by answer
    response,       \* that answer: "none" before the first, "ok", "error"
    result,
    skipped,        \* event ids this poll found already processed
    requests,       \* the upstream requests the running poll has made
    stored,         \* brand:<slug> -> the kind of configuration stored
    privateKey,     \* env.ENCRYPTION_PRIVATE_KEY is set
    channels,       \* what the reward service's two channels answer
    cycle,          \* position of scheduled() / pollAllEngagements
    brandList,      \* the keys of brandList.keys still to be handled
    results,        \* the results array of scheduled()
    typeResults,    \* the results object of pollAllEngagements
    invocations,    \* overlapping invocations of one poll, await by await
    posted,         \* engagements the upstream holds for the search: ids 1..posted
    vault,          \* a stored credential and what the vault adapter made of it
    polling,        \* the quote, hashtag and thread polls of src/polling
    streak,         \* a call of the streak client and what came of it
    inbound         \* the request a worker is handling and its response

mentionLocals == <<lastTweetId, upstream, tweets, next, newestTweetId>>
likeLocals == <<brandTweets, nextTweet, likers, nextLiker, allLikers, response>>

\* the worker's components besides the polls and the orchestrator
components == <<vault, polling, streak, inbound>>

vars == <<kvHighwater, kvProcessed, kvChecked, sendCount, polls, pc, brandSlug,
          etype, lastTweetId, upstream, tweets, next, newestTweetId,
          brandTweets, nextTweet, likers, nextLiker, allLikers, response,
          result, skipped, requests, stored, privateKey, channels, cycle,
          brandList, results, typeResults, invocations, posted, components>>

\* what no step of a poll or of the orchestrator changes: the deployment,
\* the stored configurations, the reward service, what the upstream holds,
\* and the worker's other components
environment == <<stored, privateKey, channels, posted, components>>

\* the vault adapter has not been asked
NoVault == [asked |-> FALSE]

\* no quote, hashtag or thread poll has run
NoPolling ==
    [pc |-> "idle", polls |-> 0, kind |-> "none", tweets |-> <<>>, next |-> 1,
     kv |-> {}, claims |-> {}, sends |-> <<>>, granted |-> <<>>,
     rewardResult |-> Null, result |-> Null]

\* the streak client has not been called
NoStreak == [called |-> FALSE]

\* no request has come in
NoRequest == [phase |-> "idle"]

ComponentsIdle ==
    /\ vault = NoVault
    /\ polling = NoPolling
    /\ streak = NoStreak
    /\ inbound = NoRequest

\* what no step of a poll changes: the deployment and the stored
\* configurations, the orchestrator, the second invocation
fixed == <<environment, cycle, brandList, results, typeResults, invocations>>

\* the locals every step of a poll shares
InitLocals ==
    /\ polls = 0
    /\ pc = "idle"
    /\ lastTweetId = Null /\ upstream = <<>> /\ tweets = <<>> /\ next = 1
    /\ newestTweetId = Null
    /\ brandTweets = <<>> /\ nextTweet = 1 /\ likers = <<>> /\ nextLiker = 1
    /\ allLikers = <<>> /\ response = "none"
    /\ result = NoResult /\ skipped = {}
    /\ requests = <<>>

\* an empty namespace
InitKV ==
    /\ kvHighwater = [k \in CursorKeys |-> Null]
    /\ kvProcessed = {}
    /\ kvChecked = [k \in {} |-> Null]
    /\ sendCount = [k \in {} |-> 0]

\* no scheduled cycle is running, no second invocation
NoCycle ==
    /\ cycle = "off"
    /\ brandList = <<>>
    /\ results = <<>>
    /\ typeResults = NoTypeResults
    /\ invocations = NoInvocation

Init ==
    /\ InitKV
    /\ InitLocals
    /\ NoCycle
    /\ channels = AnyAnswer
    /\ posted = 0
    /\ ComponentsIdle
    /\ \/ /\ brandSlug \in Tenants
          /\ etype \in Types
          /\ privateKey \in BOOLEAN
          /\ \E kind \in TriggerConfigs :
                 stored = [t \in Tenants \cup {Handle} |->
                              IF t = brandSlug THEN kind ELSE "ok"]
       \/ /\ brandSlug = Handle
          /\ etype \in CursorTypes
          /\ privateKey = TRUE
          /\ \E kind \in WorkerConfigs :
                 stored = [t \in Tenants \cup {Handle} |->
                              IF t = Handle THEN kind ELSE "ok"]

(***************************************************************************)
(* The environment's answers                                                *)
(***************************************************************************)
\* the status of an upstream answer that is not response.ok
ErrorStatus == {403, 429, 500}

\* data.data of a search answer: the mentions search returns tweets of Ids,
\* the replies search may also return a reply to another account
MentionPages == SeqsOf(Ids, MaxBatch)
ReplyPages == SeqsOf(Ids \cup {ForeignId}, MaxBatch)

\* the answers of the two channels of the reward service to one event.
\* env.EVENT_HANDLER: not bound, 2xx with a JSON body, non-2xx with a JSON
\* body, 2xx with a body that is not JSON, non-2xx with such a body, fetch
\* rejects.  HTTP: 2xx, non-2xx, fetch rejects.
ServiceBindingAnswers == {"unbound", "ok", "error", "okText", "errorText", "throws"}
HttpAnswers == {"ok", "error", "throws"}

\* the answers the channels can give in this behaviour
BindingNow ==
    IF channels.binding = "any" THEN ServiceBindingAnswers ELSE {channels.binding}
HttpNow ==
    IF channels.http = "any" THEN HttpAnswers ELSE {channels.http}

(***************************************************************************)
(* sendRewardEvent: the service binding first, HTTP as the fallback         *)
(***************************************************************************)
\* a call of sendRewardEvent that lets the rejection of the HTTP fetch out
sendRewardEventThrowing(payload, binding, http) ==
    LET viaBinding == binding = "ok" IN
    [sent |-> (IF binding # "unbound"
               THEN <<[channel |-> "EVENT_HANDLER", body |-> payload]>>
               ELSE <<>>)
              \o (IF viaBinding THEN <<>>
                  ELSE <<[channel |-> "HTTP", body |-> payload]>>),
     returned |-> viaBinding \/ http = "ok",
     thrown |-> ~viaBinding /\ http = "throws"]

\* a fallback that is tried only after a non-2xx of the binding
sendRewardEventStatusOnly(payload, binding, http) ==
    LET fallback == binding \in {"error", "errorText"} IN
    [sent |-> (IF binding # "unbound"
               THEN <<[channel |-> "EVENT_HANDLER", body |-> payload]>>
               ELSE <<>>)
              \o (IF fallback THEN <<[channel |-> "HTTP", body |-> payload]>>
                  ELSE <<>>),
     returned |-> IF fallback THEN http = "ok" ELSE binding \in {"ok", "okText"},
     thrown |-> FALSE]

\* the requests made on the two channels, in order, and what the call gives
sendRewardEvent(payload, binding, http) ==
    LET \* the binding is tried, its body parses and response.ok holds
        viaBinding == binding = "ok"
    IN  [sent |-> (IF binding # "unbound"
                   THEN <<[channel |-> "EVENT_HANDLER", body |-> payload]>>
                   ELSE <<>>)
                  \o (IF viaBinding THEN <<>>
                      ELSE <<[channel |-> "HTTP", body |-> payload]>>),
         returned |-> viaBinding \/ http = "ok",
         thrown |-> FALSE]

\* the payload of the reward event of one engagement
Payload(brand, eventType, id) ==
    [brandId |-> brand, eventType |-> eventType, tweet_id |-> id]

\* what a call of sendRewardEvent can give its caller
DispatchOutcomes ==
    {[returned |-> d.returned, thrown |-> d.thrown] :
        d \in {sendRewardEvent(Null, b, h) : b \in BindingNow, h \in HttpNow}}

(***************************************************************************)
(* Helpers of the mention and reply polls                                   *)
(***************************************************************************)
\* tweets.filter(t => t.in_reply_to_user_id === userId)
RepliesToBrand(data) == SelectSeq(data, LAMBDA t : t # ForeignId)

\* "Limit first run to 3 tweets"
FirstRunSlice(data, last) ==
    IF last = Null /\ Len(data) > FirstRunLimit
    THEN SubSeq(data, 1, FirstRunLimit)
    ELSE data

\* a marker check that never finds the marker
NeverProcessed(processed, key) == FALSE

\* a marker write that is left out
MarkNothing(processed, key, success) == processed

\* a marker write made only for a dispatch that returned true
MarkOnSuccess(processed, key, success) ==
    IF success THEN processed \cup {key} ELSE processed

\* a > b as JavaScript compares two strings of digits
RECURSIVE StringGreater(_, _)
StringGreater(a, b) ==
    IF a = <<>> THEN FALSE
    ELSE IF b = <<>> THEN TRUE
    ELSE IF Head(a) # Head(b) THEN Head(a) > Head(b)
    ELSE StringGreater(Tail(a), Tail(b))

\* the newest id kept by comparing the ids as strings
NewestAsStrings(newest, id) ==
    IF newest = Null \/ StringGreater(id, newest) THEN id ELSE newest

\* a high water mark written after every dispatched tweet
HighWaterPerTweet(hw, key, newest) ==
    IF newest # Null THEN [hw EXCEPT ![key] = newest] ELSE hw

\* a marker check made under the key of the mention type
AlreadyProcessedAsMention(processed, key) ==
    <<key[1], "mention", key[3]>> \in processed

\* const alreadyProcessed = await KV.get(processedKey)
AlreadyProcessed(processed, key) == key \in processed

\* a cursor key that leaves the brand out: one cursor per type for all brands
highWaterKeyShared(slug, ty) == <<CHOOSE t \in Tenants : TRUE, ty>>

\* const highWaterKey = `highwater:mentions:${brandSlug}`
highWaterKey(slug, ty) == <<slug, ty>>

\* a marker written under a key that leaves the engagement type out
MarkProcessedUntyped(processed, key, success) ==
    processed \cup {<<key[1], "any", key[3]>>}

\* await KV.put(processedKey, 'true', ...) after the send, whatever it returned
MarkProcessed(processed, key, success) == processed \cup {key}

\* if (!newestTweetId || BigInt(tweet.id) > BigInt(newestTweetId))
Newest(newest, id) ==
    IF newest = Null \/ BigInt(id) > BigInt(newest) THEN id ELSE newest

\* a count that books every dispatch as rewarded and a failed one as failed too
CountBoth(res, success) ==
    IF success
    THEN [res EXCEPT !.rewarded = @ + 1]
    ELSE [res EXCEPT !.rewarded = @ + 1, !.failed = @ + 1]

\* if (success) result.rewarded++ else result.failed++
Count(res, success) ==
    IF success
    THEN [res EXCEPT !.rewarded = @ + 1]
    ELSE [res EXCEPT !.failed = @ + 1]

\* if (newestTweetId) await KV.put(highWaterKey, newestTweetId)
PutHighWater(hw, key, newest) ==
    IF newest # Null THEN [hw EXCEPT ![key] = newest] ELSE hw

\* the loop body holds no write of the high water mark
HighWaterInLoop(hw, key, newest) == hw

\* polls one behaviour starts: manual triggers, or the polls of one cycle
PollLimit ==
    IF cycle = "off" THEN MaxPolls ELSE Cardinality(Tenants) * Cardinality(Types)

\* an early return of a poll with one error string, after the upstream
\* requests reqs
ReturnError(msg, reqs) ==
    /\ result' = [NoResult EXCEPT !.errors = <<msg>>]
    /\ pc' = "done"
    /\ requests' = reqs
    /\ UNCHANGED <<mentionLocals, likeLocals, skipped>>

\* the part of a poll that needs the credential and the handle: the two
\* early returns, or the rest of the poll
WithCredentials(t, rest) ==
    IF getDecryptedBearerToken(stored[t], privateKey) = Null
    THEN ReturnError(<<"No bearer token configured">>, <<>>)
    ELSE IF ~HasHandle(stored[t])
         THEN ReturnError(<<"No Twitter handle configured">>, <<>>)
         ELSE rest

\* getUserId gave null: the lookup was not cached and the upstream failed
NoUserId ==
    ReturnError(<<"Could not find user ID">>, <<Request("users", 404)>>)

\* a refused search that returns the result without an error string
SearchErrorSilent(status) ==
    /\ result' = NoResult
    /\ pc' = "done"
    /\ requests' = <<Request("search", status)>>
    /\ UNCHANGED <<mentionLocals, likeLocals, skipped>>

\* if (!response.ok) of the search
SearchError(status) ==
    ReturnError(<<"Twitter API error", status>>, <<Request("search", status)>>)

\* a poll that enters its loop with an empty batch too
LoopAlways(batch) == "loop"

\* if (tweets.length === 0) return result
LoopOrReturn(batch) == IF Len(batch) = 0 THEN "done" ELSE "loop"

\* lines 551-568: the batch, the first-run limit, result.found, the loop's start
StartLoop(last, data, filtered) ==
    LET batch == FirstRunSlice(filtered, last) IN
    /\ lastTweetId' = last
    /\ upstream' = data
    /\ tweets' = batch
    /\ next' = 1
    /\ result' = [NoResult EXCEPT !.found = Len(batch)]
    /\ newestTweetId' = IF Len(batch) = 0 THEN Null ELSE last
    /\ pc' = LoopOrReturn(batch)
    /\ requests' = <<Request("search", 200)>>
    /\ UNCHANGED <<likeLocals, skipped>>

(***************************************************************************)
(* pollTwitterMentions, up to the loop                                      *)
(***************************************************************************)
pollTwitterMentions(t) ==
    /\ pc = "idle"
    /\ polls < PollLimit
    /\ polls' = polls + 1
    /\ brandSlug = t
    /\ etype = "mention"
    /\ WithCredentials(t,
           \/ \E status \in ErrorStatus : SearchError(status)
           \/ \E data \in MentionPages :
                  StartLoop(kvHighwater[highWaterKey(t, "mention")], data, data))
    /\ UNCHANGED <<kvHighwater, kvProcessed, kvChecked, sendCount, brandSlug,
                   etype, fixed>>

(***************************************************************************)
(* pollTwitterReplies, up to the loop                                       *)
(***************************************************************************)
pollTwitterReplies(t) ==
    /\ pc = "idle"
    /\ polls < PollLimit
    /\ polls' = polls + 1
    /\ brandSlug = t
    /\ etype = "reply"
    /\ WithCredentials(t,
           \/ NoUserId
           \/ \E status \in ErrorStatus : SearchError(status)
           \/ \E data \in ReplyPages :
                  StartLoop(kvHighwater[highWaterKey(t, "reply")], data,
                            RepliesToBrand(data)))
    /\ UNCHANGED <<kvHighwater, kvProcessed, kvChecked, sendCount, brandSlug,
                   etype, fixed>>

(***************************************************************************)
(* One turn of `for (const tweet of tweets)` of either poll                 *)
(***************************************************************************)
TweetLoop ==
    /\ brandSlug \in Tenants
    /\ pc = "loop"
    /\ next <= Len(tweets)
    /\ next' = next + 1
    /\ LET tweet == tweets[next]
           key == <<brandSlug, etype, tweet>>
       IN  IF AlreadyProcessed(kvProcessed, key)
           THEN /\ skipped' = skipped \cup {tweet}
                /\ UNCHANGED <<kvHighwater, kvProcessed, sendCount, result,
                               newestTweetId, pc>>
           ELSE \E outcome \in DispatchOutcomes :
                /\ sendCount' = Sent(sendCount, key)
                /\ IF outcome.thrown
                   THEN \* the exception leaves the poll
                        /\ pc' = "thrown"
                        /\ UNCHANGED <<kvHighwater, kvProcessed, result,
                                       newestTweetId, skipped>>
                   ELSE /\ result' = Count(result, outcome.returned)
                        /\ kvProcessed' =
                               MarkProcessed(kvProcessed, key, outcome.returned)
                        /\ newestTweetId' = Newest(newestTweetId, tweet)
                        /\ kvHighwater' =
                               HighWaterInLoop(kvHighwater,
                                               highWaterKey(brandSlug, etype),
                                               newestTweetId')
                        /\ UNCHANGED <<pc, skipped>>
    /\ UNCHANGED <<kvChecked, polls, brandSlug, etype,
                   lastTweetId, upstream, tweets, likeLocals, requests, fixed>>

(***************************************************************************)
(* After the loop: the high water mark is written, the result returned      *)
(***************************************************************************)
AdvanceHighWater ==
    /\ brandSlug \in Tenants
    /\ pc = "loop"
    /\ next > Len(tweets)
    /\ kvHighwater' = PutHighWater(kvHighwater, highWaterKey(brandSlug, etype),
                                   newestTweetId)
    /\ pc' = "done"
    /\ UNCHANGED <<kvProcessed, kvChecked, sendCount, polls, brandSlug, etype,
                   mentionLocals, likeLocals, result, skipped,
                   requests, fixed>>

(***************************************************************************)
(* The invocation ends: its response is delivered, its locals are gone      *)
(***************************************************************************)
Return ==
    /\ cycle = "off"
    /\ pc \in {"done", "stopped", "thrown"}
    /\ pc' = "idle"
    /\ lastTweetId' = Null /\ upstream' = <<>> /\ tweets' = <<>> /\ next' = 1
    /\ newestTweetId' = Null
    /\ brandTweets' = <<>> /\ nextTweet' = 1 /\ likers' = <<>> /\ nextLiker' = 1
    /\ allLikers' = <<>> /\ response' = "none"
    /\ result' = NoResult /\ skipped' = {}
    /\ requests' = <<>>
    /\ UNCHANGED <<kvHighwater, kvProcessed, kvChecked, sendCount, polls,
                   brandSlug, etype, fixed>>

(***************************************************************************)
(* POST /reset                                                              *)
(***************************************************************************)
\* a reset that also deletes the tenant's processed markers
handleResetAll(t) ==
    /\ pc = "idle"
    /\ brandSlug = t
    /\ kvHighwater' = [k \in CursorKeys |-> IF k[1] = t THEN Null ELSE kvHighwater[k]]
    /\ kvProcessed' = {k \in kvProcessed : k[1] # t}
    /\ UNCHANGED <<kvChecked, sendCount, polls, pc, brandSlug, etype,
                   mentionLocals, likeLocals, result, skipped,
                   requests, fixed>>

handleReset(t) ==
    /\ pc = "idle"
    /\ brandSlug = t
    /\ kvHighwater' = [k \in CursorKeys |-> IF k[1] = t THEN Null ELSE kvHighwater[k]]
    /\ UNCHANGED <<kvProcessed, kvChecked, sendCount, polls, pc, brandSlug, etype,
                   mentionLocals, likeLocals, result, skipped,
                   requests, fixed>>

(***************************************************************************)
(* KV drops a processed marker when its expirationTtl has passed            *)
(***************************************************************************)
ExpireProcessed(key) ==
    /\ pc = "idle"
    /\ key \in kvProcessed
    /\ kvProcessed' = kvProcessed \ {key}
    /\ sendCount' = Without(sendCount, key)
    /\ UNCHANGED <<kvHighwater, kvChecked, polls, pc, brandSlug, etype,
                   mentionLocals, likeLocals, result, skipped,
                   requests, fixed>>

(***************************************************************************)
(* Likes and retweets: reconstructed from the actor list of each brand post *)
(***************************************************************************)
\* data.data of getBrandRecentTweets (an upstream error gives [] as well)
BrandTimelines == SeqsOf(Posts, MaxBatch)
\* data.data of liking_users / retweeted_by
ActorPages == SeqsOf(Actors, MaxBatch)

\* every fetched liker taken as new
AllLikersNew(all, previousLikerIds) == all

\* a cache that keeps the previous ids and appends the fetched ones
PutCheckedMerged(checked, key, allLikerIds) ==
    LET previous == IF key \in DOMAIN checked THEN checked[key] ELSE <<>>
        merged == previous
                    \o SelectSeq(allLikerIds, LAMBDA l : l \notin Range(previous))
    IN  [k \in DOMAIN checked \cup {key} |->
            IF k = key THEN merged ELSE checked[k]]

\* lastCheckedLikers ? JSON.parse(lastCheckedLikers) : []
Cached(checked, cacheKey) ==
    IF cacheKey \in DOMAIN checked THEN checked[cacheKey] ELSE <<>>

\* allLikers.filter(liker => !previousLikerIds.includes(liker.id))
NewLikers(all, previousLikerIds) ==
    SelectSeq(all, LAMBDA l : l \notin Range(previousLikerIds))

\* await KV.put(cacheKey, JSON.stringify(allLikerIds), ...)
PutChecked(checked, key, allLikerIds) ==
    [k \in DOMAIN checked \cup {key} |->
        IF k = key THEN allLikerIds ELSE checked[k]]

ElevatedAccessMessage == <<"requires elevated Twitter API access">>

\* the poll up to `for (const tweet of brandTweets)`
StartActorPoll(t, ty) ==
    /\ pc = "idle"
    /\ polls < PollLimit
    /\ polls' = polls + 1
    /\ brandSlug = t
    /\ etype = ty
    /\ WithCredentials(t,
           \/ NoUserId
           \/ \E timeline \in BrandTimelines :
                  /\ brandTweets' = timeline
                  /\ nextTweet' = 1
                  /\ likers' = <<>>
                  /\ nextLiker' = 1
                  /\ result' = NoResult
                  /\ pc' = IF Len(timeline) = 0 THEN "done" ELSE "tweets"
                  /\ requests' = <<Request("tweets", 200)>>
                  /\ UNCHANGED <<mentionLocals, allLikers, response, skipped>>)
    /\ UNCHANGED <<kvHighwater, kvProcessed, kvChecked, sendCount, brandSlug,
                   etype, fixed>>

pollTwitterLikes(t) == StartActorPoll(t, "like")

pollTwitterRetweets(t) == StartActorPoll(t, "retweet")

\* a failed fetch that stores the empty list as the cache of the post
CacheOnErrorEmptied(checked, key) == PutChecked(checked, key, <<>>)

\* `if (!response.ok)` throws or returns [] before the put of the cache
CacheOnError(checked, key) == checked

\* getTweetLikers / getTweetRetweeters for the next brand tweet, and what the
\* poll's try/catch does with its outcome
getTweetLikers ==
    /\ pc = "tweets"
    /\ nextLiker > Len(likers)
    /\ nextTweet <= Len(brandTweets)
    /\ LET cacheKey == <<brandSlug, etype, brandTweets[nextTweet]>> IN
       \/ \* 403: getTweetLikers throws, the poll records the message and breaks
          /\ result' = [result EXCEPT !.errors = Append(@, ElevatedAccessMessage)]
          /\ pc' = "done"
          /\ allLikers' = <<>>
          /\ response' = "error"
          /\ requests' = Append(requests, Request("actors", 403))
          /\ kvChecked' = CacheOnError(kvChecked, cacheKey)
          /\ UNCHANGED <<brandTweets, nextTweet, likers, nextLiker>>
       \/ \* another error status: getTweetLikers returns []
          \E status \in ErrorStatus \ {403} :
              /\ allLikers' = <<>>
              /\ response' = "error"
              /\ likers' = <<>>
              /\ nextLiker' = 1
              /\ nextTweet' = nextTweet + 1
              /\ requests' = Append(requests, Request("actors", status))
              /\ kvChecked' = CacheOnError(kvChecked, cacheKey)
              /\ UNCHANGED <<brandTweets, result, pc>>
       \/ \E data \in ActorPages :
              /\ allLikers' = data
              /\ response' = "ok"
              /\ likers' = NewLikers(data, Cached(kvChecked, cacheKey))
              /\ kvChecked' = PutChecked(kvChecked, cacheKey, data)
              /\ nextLiker' = 1
              /\ nextTweet' = nextTweet + 1
              /\ requests' = Append(requests, Request("actors", 200))
              /\ UNCHANGED <<brandTweets, result, pc>>
    /\ UNCHANGED <<kvHighwater, kvProcessed, sendCount, polls, brandSlug, etype,
                   mentionLocals, skipped, fixed>>

\* one turn of `for (const liker of likers)`
LikerLoop ==
    /\ pc = "tweets"
    /\ nextLiker <= Len(likers)
    /\ LET liker == likers[nextLiker]
           tweet == brandTweets[nextTweet - 1]
           id == EventId(tweet, liker)
           key == <<brandSlug, etype, id>>
           found == [result EXCEPT !.found = @ + 1]
       IN  IF AlreadyProcessed(kvProcessed, key)
           THEN /\ result' = found
                /\ skipped' = skipped \cup {id}
                /\ nextLiker' = nextLiker + 1
                /\ UNCHANGED <<kvProcessed, sendCount>>
           ELSE \E outcome \in DispatchOutcomes :
                /\ sendCount' = Sent(sendCount, key)
                /\ IF outcome.thrown
                   THEN \* caught by the poll: the next brand tweet follows
                        /\ result' = found
                        /\ nextLiker' = Len(likers) + 1
                        /\ UNCHANGED <<kvProcessed, skipped>>
                   ELSE /\ result' = Count(found, outcome.returned)
                        /\ kvProcessed' =
                               MarkProcessed(kvProcessed, key, outcome.returned)
                        /\ nextLiker' = nextLiker + 1
                        /\ UNCHANGED skipped
    /\ UNCHANGED <<kvHighwater, kvChecked, polls, pc, brandSlug, etype,
                   mentionLocals, brandTweets, nextTweet, likers, allLikers,
                   response, requests, fixed>>

\* the loop over brandTweets is over: the result is returned
ActorPollDone ==
    /\ pc = "tweets"
    /\ nextLiker > Len(likers)
    /\ nextTweet > Len(brandTweets)
    /\ pc' = "done"
    /\ UNCHANGED <<kvHighwater, kvProcessed, kvChecked, sendCount, polls,
                   brandSlug, etype, mentionLocals, likeLocals, result, skipped,
                   requests, fixed>>

(***************************************************************************)
(* KV drops a likers_checked / retweeters_checked entry after its TTL       *)
(***************************************************************************)
ExpireChecked(key) ==
    /\ pc = "idle"
    /\ key \in DOMAIN kvChecked
    /\ kvChecked' = Without(kvChecked, key)
    /\ UNCHANGED <<kvHighwater, kvProcessed, sendCount, polls, pc, brandSlug,
                   etype, mentionLocals, likeLocals, result, skipped,
                   requests, fixed>>

(***************************************************************************)
(* The single-tenant worker (index.js): mentions and replies                *)
(***************************************************************************)
\* data.meta?.newest_id || (tweets.length > 0 ? tweets[0].id : null), where
\* the search API gives meta.newest_id with every non-empty data: the
\* greatest id of data
NewestId(data, filtered) ==
    IF Len(data) > 0 THEN MaxId(data)
    ELSE IF Len(filtered) > 0 THEN filtered[1] ELSE Null

\* if (!newestId) return; await env.TWITTER_BOT_KV.put(highWaterKey, newestId)
updateHighWaterMark(hw, key, newestId) ==
    IF newestId = Null THEN hw ELSE [hw EXCEPT ![key] = newestId]

\* searchMentions / searchReplies answered, and the poll up to its loop
Searched(ty, data, filtered) ==
    LET sinceId == kvHighwater[<<Handle, ty>>]
        batch == FirstRunSlice(filtered, sinceId)
        newestId == NewestId(data, filtered)
    IN  /\ lastTweetId' = sinceId
        /\ upstream' = data
        /\ tweets' = batch
        /\ next' = 1
        /\ result' = [NoResult EXCEPT !.found = Len(batch)]
        /\ newestTweetId' = newestId
        /\ IF Len(batch) = 0
           THEN /\ kvHighwater' =
                       updateHighWaterMark(kvHighwater, <<Handle, ty>>, newestId)
                /\ pc' = "done"
           ELSE /\ UNCHANGED kvHighwater
                /\ pc' = "loop"
        /\ requests' = <<Request("search", 200)>>
        /\ UNCHANGED <<likeLocals, skipped>>

\* the search failed: { tweets: [], newestId: null }, no error in the result
SearchFailed(status) ==
    /\ lastTweetId' = kvHighwater[<<Handle, etype>>]
    /\ result' = NoResult
    /\ pc' = "done"
    /\ requests' = <<Request("search", status)>>
    /\ UNCHANGED <<kvHighwater, upstream, tweets, next, newestTweetId,
                   likeLocals, skipped>>

\* the early returns of a poll of the single-tenant worker, or the rest
WithToken(rest) ==
    IF stored[Handle] = "noToken"
    THEN ReturnError(<<"TWITTER_BEARER_TOKEN not configured">>, <<>>)
         /\ UNCHANGED kvHighwater
    ELSE IF ~HasHandle(stored[Handle])
         THEN ReturnError(<<"Twitter handle not configured">>, <<>>)
              /\ UNCHANGED kvHighwater
         ELSE rest

indexPollTwitterMentions ==
    /\ pc = "idle"
    /\ polls < PollLimit
    /\ polls' = polls + 1
    /\ brandSlug = Handle
    /\ etype = "mention"
    /\ WithToken(
           \/ NoUserId /\ UNCHANGED kvHighwater
           \/ \E status \in ErrorStatus : SearchFailed(status)
           \/ \E data \in MentionPages : Searched("mention", data, data))
    /\ UNCHANGED <<kvProcessed, kvChecked, sendCount, brandSlug, etype, fixed>>

indexPollTwitterReplies ==
    /\ pc = "idle"
    /\ polls < PollLimit
    /\ polls' = polls + 1
    /\ brandSlug = Handle
    /\ etype = "reply"
    /\ WithToken(
           \/ NoUserId /\ UNCHANGED kvHighwater
           \/ \E status \in ErrorStatus : SearchFailed(status)
           \/ \E data \in ReplyPages : Searched("reply", data, RepliesToBrand(data)))
    /\ UNCHANGED <<kvProcessed, kvChecked, sendCount, brandSlug, etype, fixed>>

\* one turn of `for (const tweet of tweets)`: processTweet and the counts
processTweet ==
    /\ brandSlug = Handle
    /\ pc = "loop"
    /\ next <= Len(tweets)
    /\ next' = next + 1
    /\ LET tweet == tweets[next]
           key == <<Handle, etype, tweet>>
       IN  IF AlreadyProcessed(kvProcessed, key)
           THEN /\ skipped' = skipped \cup {tweet}
                /\ UNCHANGED <<kvProcessed, sendCount, result, pc>>
           ELSE \E outcome \in DispatchOutcomes :
                /\ sendCount' = Sent(sendCount, key)
                /\ IF outcome.thrown
                   THEN \* caught by the poll: errors.push, return result
                        /\ result' = [result EXCEPT
                                          !.errors = Append(@, <<"thrown">>)]
                        /\ pc' = "done"
                        /\ UNCHANGED <<kvProcessed, skipped>>
                   ELSE /\ result' = Count(result, outcome.returned)
                        /\ kvProcessed' =
                               MarkProcessed(kvProcessed, key, outcome.returned)
                        /\ UNCHANGED <<pc, skipped>>
    /\ UNCHANGED <<kvHighwater, kvChecked, polls, brandSlug, etype,
                   lastTweetId, upstream, tweets, newestTweetId, likeLocals,
                   requests, fixed>>

\* after the loop: if (newestId) await this.updateHighWaterMark(...)
indexAdvanceHighWater ==
    /\ brandSlug = Handle
    /\ pc = "loop"
    /\ next > Len(tweets)
    /\ kvHighwater' =
           updateHighWaterMark(kvHighwater, <<Handle, etype>>, newestTweetId)
    /\ pc' = "done"
    /\ UNCHANGED <<kvProcessed, kvChecked, sendCount, polls, brandSlug, etype,
                   mentionLocals, likeLocals, result, skipped,
                   requests, fixed>>

\* POST /reset of the single-tenant worker
indexReset ==
    /\ pc = "idle"
    /\ brandSlug = Handle
    /\ kvHighwater' =
           [k \in CursorKeys |-> IF k[1] = Handle THEN Null ELSE kvHighwater[k]]
    /\ UNCHANGED <<kvProcessed, kvChecked, sendCount, polls, pc, brandSlug, etype,
                   mentionLocals, likeLocals, result, skipped,
                   requests, fixed>>

Next ==
    \/ \E t \in Tenants : pollTwitterMentions(t)
    \/ \E t \in Tenants : pollTwitterReplies(t)
    \/ TweetLoop
    \/ AdvanceHighWater
    \/ \E t \in Tenants : pollTwitterLikes(t)
    \/ \E t \in Tenants : pollTwitterRetweets(t)
    \/ getTweetLikers
    \/ LikerLoop
    \/ ActorPollDone
    \/ Return
    \/ \E t \in Tenants : handleReset(t)
    \/ \E key \in Keys : ExpireProcessed(key)
    \/ \E key \in CacheKeys : ExpireChecked(key)
    \/ indexPollTwitterMentions
    \/ indexPollTwitterReplies
    \/ processTweet
    \/ indexAdvanceHighWater
    \/ indexReset

Spec == Init /\ [][Next]_vars

(***************************************************************************)
(* The platform stops a running invocation (CPU or wall-time limit, an      *)
(* uncaught exception of a KV call): nothing after the current point runs   *)
(***************************************************************************)
Stop ==
    /\ pc \in {"loop", "tweets"}
    /\ pc' = "stopped"
    /\ UNCHANGED <<kvHighwater, kvProcessed, kvChecked, sendCount, polls,
                   brandSlug, etype, mentionLocals, likeLocals, result, skipped,
                   requests, fixed>>

NextCrash == Next \/ Stop

SpecCrash == Init /\ [][NextCrash]_vars

(***************************************************************************)
(* One dispatch: a poll stands before the only engagement of its batch and  *)
(* the two channels of the reward service answer in one given way           *)
(***************************************************************************)
InitDispatch ==
    /\ NoCycle
    /\ privateKey = TRUE
    /\ stored = [t \in Tenants \cup {Handle} |-> "ok"]
    /\ channels \in [binding : ServiceBindingAnswers, http : HttpAnswers]
    /\ posted = 0
    /\ ComponentsIdle
    /\ kvHighwater = [k \in CursorKeys |-> Null]
    /\ kvProcessed = {}
    /\ sendCount = [k \in {} |-> 0]
    /\ polls = 1
    /\ skipped = {}
    /\ \/ \E id \in Ids :
              /\ \/ brandSlug \in Tenants /\ newestTweetId = Null
                 \/ brandSlug = Handle /\ newestTweetId = id
              /\ etype \in CursorTypes
              /\ pc = "loop"
              /\ lastTweetId = Null /\ upstream = <<id>> /\ tweets = <<id>>
              /\ next = 1
              /\ result = [NoResult EXCEPT !.found = 1]
              /\ requests = <<Request("search", 200)>>
              /\ brandTweets = <<>> /\ nextTweet = 1 /\ likers = <<>>
              /\ nextLiker = 1 /\ allLikers = <<>> /\ response = "none"
              /\ kvChecked = [k \in {} |-> Null]
       \/ \E post \in Posts, actor \in Actors :
              /\ brandSlug \in Tenants
              /\ etype \in ActorTypes
              /\ pc = "tweets"
              /\ brandTweets = <<post>> /\ nextTweet = 2
              /\ likers = <<actor>> /\ nextLiker = 1
              /\ allLikers = <<actor>> /\ response = "ok"
              /\ kvChecked =
                     PutChecked([k \in {} |-> Null], <<brandSlug, etype, post>>,
                                <<actor>>)
              /\ result = NoResult
              /\ requests = <<Request("tweets", 200), Request("actors", 200)>>
              /\ lastTweetId = Null /\ upstream = <<>> /\ tweets = <<>>
              /\ next = 1 /\ newestTweetId = Null

NextDispatch ==
    \/ TweetLoop
    \/ AdvanceHighWater
    \/ LikerLoop
    \/ ActorPollDone
    \/ processTweet
    \/ indexAdvanceHighWater
    \/ Return

SpecDispatch == InitDispatch /\ [][NextDispatch]_vars

(***************************************************************************)
(* The credential vault adapter: decryptCredential and                      *)
(* getDecryptedBearerToken.  A stored credential is a string; it is         *)
(* modelled as the list of its parts between colons, so that                *)
(* <<"enc", "v1", p>> is the string enc:v1:p                                *)
(***************************************************************************)
\* a decryptCredential that hands the stored text on when it cannot open it
decryptCredentialLenient(encrypted) ==
    IF Len(encrypted) = 3 /\ encrypted[1] = "enc" /\ encrypted[2] = "v1"
          /\ encrypted[3] = "sealed"
    THEN [thrown |-> FALSE, returned |-> <<"secret">>]
    ELSE [thrown |-> FALSE, returned |-> encrypted]

\* the parts a stored credential is made of.  The last three stand for a
\* base64 payload: a box sealed for the deployment's key, a box that does
\* not authenticate under it, and bytes too short for key, nonce and box
CredentialParts == {"enc", "v1", "v2", "", "token", "sealed", "forged", "short"}
MaxParts == 4
Credentials == UNION {[1..n -> CredentialParts] : n \in 1..MaxParts}

\* the text sealed in the box
Plaintext == <<"secret">>

\* !encrypted: the empty string
IsEmpty(encrypted) == encrypted = <<"">>

\* encrypted.startsWith('enc:')
StartsWithEnc(encrypted) == Len(encrypted) >= 2 /\ encrypted[1] = "enc"

\* nacl.box.open(ciphertext, nonce, ephemeralPublicKey, privateKey): the
\* plaintext, null when the box does not authenticate; it throws when the
\* sizes of key or nonce are wrong
BoxOpen(payload) ==
    IF payload = "sealed" THEN [thrown |-> FALSE, opened |-> Plaintext]
    ELSE IF payload = "forged" THEN [thrown |-> FALSE, opened |-> Null]
    ELSE [thrown |-> TRUE]

Thrown(msg) == [thrown |-> TRUE, message |-> msg]

decryptCredential(encrypted) ==
    IF IsEmpty(encrypted) \/ ~StartsWithEnc(encrypted)
    THEN [thrown |-> FALSE, returned |-> encrypted]
    ELSE IF Len(encrypted) # 3
    THEN Thrown(<<"Failed to decrypt", "Invalid format">>)
    ELSE IF encrypted[2] # "v1"
    THEN Thrown(<<"Failed to decrypt", "Unsupported version", encrypted[2]>>)
    ELSE LET box == BoxOpen(encrypted[3]) IN
         IF box.thrown
         THEN Thrown(<<"Failed to decrypt", "bad size">>)
         ELSE IF box.opened = Null
         THEN Thrown(<<"Failed to decrypt", "Decryption failed">>)
         ELSE [thrown |-> FALSE, returned |-> box.opened]

\* getDecryptedBearerToken for the stored text, Null standing for an absent
\* encrypted_bearer_token
DecryptedToken(encrypted, key) ==
    IF encrypted = Null \/ IsEmpty(encrypted) THEN Null
    ELSE IF ~key THEN Null
    ELSE LET outcome == decryptCredential(encrypted) IN
         IF outcome.thrown THEN Null ELSE outcome.returned

\* the vault adapter is asked for the bearer token of a stored config
readBearerToken ==
    /\ ~vault.asked
    /\ vault' = [asked |-> TRUE,
                 encrypted |-> vault.encrypted,
                 outcome |-> IF vault.encrypted = Null
                             THEN [thrown |-> FALSE, returned |-> Null]
                             ELSE decryptCredential(vault.encrypted),
                 token |-> DecryptedToken(vault.encrypted, privateKey)]
    /\ UNCHANGED <<kvHighwater, kvProcessed, kvChecked, sendCount, polls, pc,
                   brandSlug, etype, mentionLocals, likeLocals, result, skipped,
                   requests, stored, privateKey, channels, posted, cycle,
                   brandList, results, typeResults, invocations, polling, streak,
                   inbound>>

InitVault ==
    /\ InitKV
    /\ InitLocals
    /\ NoCycle
    /\ channels = AnyAnswer
    /\ posted = 0
    /\ stored = [t \in Tenants \cup {Handle} |-> "ok"]
    /\ brandSlug \in Tenants
    /\ etype = "mention"
    /\ privateKey \in BOOLEAN
    /\ \E encrypted \in Credentials \cup {Null} :
          vault = [asked |-> FALSE, encrypted |-> encrypted]
    /\ polling = NoPolling
    /\ streak = NoStreak
    /\ inbound = NoRequest

NextVault == readBearerToken

SpecVault == InitVault /\ [][NextVault]_vars

(***************************************************************************)
(* The quote, hashtag and thread polls of the single-tenant worker:         *)
(* pollQuoteTweets, pollHashtagCampaigns, pollThreadParticipation.  None of *)
(* them keeps a cursor: every poll searches the recent engagements anew     *)
(***************************************************************************)
PollingKinds == {"tweet_quote", "tweet_hashtag", "tweet_thread_reply"}
MaxCampaignPolls == 2
MaxFound == 2

\* campaign.max_claims_per_user of the one configured campaign
MaxClaims == 2

\* what a search can return: a tweet with its author and, for a hashtag
\* the campaign's hashtag, for a thread the conversation
PollingItems ==
    [id : {<<1>>, <<2>>}, author : {"u1", "u2"}, scope : {"c"}]

\* the lists a search can answer with: no tweet twice
Found ==
    {list \in UNION {[1..n -> PollingItems] : n \in 0..MaxFound} :
        \A i, j \in DOMAIN list : i # j => list[i].id # list[j].id}

\* processedKey
processedKey(kind, item) ==
    IF kind = "tweet_quote" THEN <<kind, item.id>>
    ELSE IF kind = "tweet_hashtag" THEN <<kind, item.scope, item.id>>
    ELSE <<kind, item.scope, item.author>>

\* claimKey of processHashtagTweet
claimKey(item) == <<item.scope, item.author>>

\* a claim count that is read as 0 whatever is stored
claimCountForgotten(claims, item) == 0

\* the number of claims stored for a user: one stored entry per count
claimCount(claims, item) ==
    Cardinality({c \in claims : c[1] = claimKey(item)})

Dispatches(sends, key) == IF key \in DOMAIN sends THEN sends[key] ELSE 0

\* the rewards the service has granted for a hashtag and a user so far
Granted(granted, key) == IF key \in DOMAIN granted THEN granted[key] ELSE 0

PollingResult == [found |-> 0, rewardsIssued |-> 0, rewardsFailed |-> 0,
                  errors |-> <<>>]

\* a poll up to its loop: the early returns and the search
pollCampaign ==
    /\ polling.pc = "idle"
    /\ polling.polls < MaxCampaignPolls
    /\ \E kind \in PollingKinds :
          \/ \E msg \in {<<"TWITTER_BEARER_TOKEN not configured">>,
                              <<"Twitter API error">>} :
                polling' = [polling EXCEPT
                               !.kind = kind,
                               !.polls = @ + 1,
                               !.rewardResult = Null,
                               !.result = [PollingResult EXCEPT
                                              !.errors = <<msg>>]]
          \/ \E list \in Found :
                polling' = [polling EXCEPT
                               !.kind = kind,
                               !.tweets = list,
                               !.next = 1,
                               !.rewardResult = Null,
                               !.result = [PollingResult EXCEPT
                                              !.found = Len(list)],
                               !.pc = "loop"]
    /\ UNCHANGED <<kvHighwater, kvProcessed, kvChecked, sendCount, polls, pc,
                   brandSlug, etype, mentionLocals, likeLocals, result, skipped,
                   requests, stored, privateKey, channels, posted, cycle,
                   brandList, results, typeResults, invocations, vault, streak,
                   inbound>>

\* processQuoteTweet, processHashtagTweet, processThreadParticipant for the
\* next tweet of the list, and the counting of its outcome by the caller
processEngagement ==
    /\ polling.pc = "loop"
    /\ polling.next <= Len(polling.tweets)
    /\ LET item == polling.tweets[polling.next]
           key == processedKey(polling.kind, item)
           onward == [polling EXCEPT !.next = @ + 1, !.rewardResult = Null]
       IN  \/ \* the claims of the user are used up, or the marker is there
              /\ \/ /\ polling.kind = "tweet_hashtag"
                    /\ claimCount(polling.claims, item) >= MaxClaims
                 \/ key \in polling.kv
              /\ polling' = onward
           \/ \* a read of the store throws: caught, counted as failed
              polling' = [onward EXCEPT !.result.rewardsFailed = @ + 1]
           \/ /\ ~(polling.kind = "tweet_hashtag"
                      /\ claimCount(polling.claims, item) >= MaxClaims)
              /\ key \notin polling.kv
              /\ \E success \in BOOLEAN :
                    polling' =
                        [polling EXCEPT
                            !.next = @ + 1,
                            !.sends = (key :> Dispatches(@, key) + 1) @@ @,
                            !.rewardResult = [key |-> key, success |-> success],
                            !.kv = IF success THEN @ \cup {key} ELSE @,
                            !.granted =
                                IF success /\ polling.kind = "tweet_hashtag"
                                THEN (claimKey(item) :>
                                         Granted(@, claimKey(item)) + 1) @@ @
                                ELSE @,
                            !.claims =
                                IF success /\ polling.kind = "tweet_hashtag"
                                THEN @ \cup {<<claimKey(item),
                                               claimCount(@, item) + 1>>}
                                ELSE @,
                            !.result.rewardsIssued =
                                IF success THEN @ + 1 ELSE @,
                            !.result.rewardsFailed =
                                IF success THEN @ ELSE @ + 1]
    /\ UNCHANGED <<kvHighwater, kvProcessed, kvChecked, sendCount, polls, pc,
                   brandSlug, etype, mentionLocals, likeLocals, result, skipped,
                   requests, stored, privateKey, channels, posted, cycle,
                   brandList, results, typeResults, invocations, vault, streak,
                   inbound>>

\* the poll returns its result
pollComplete ==
    /\ polling.pc = "loop"
    /\ polling.next > Len(polling.tweets)
    /\ polling' = [polling EXCEPT !.pc = "idle", !.polls = @ + 1,
                                  !.rewardResult = Null]
    /\ UNCHANGED <<kvHighwater, kvProcessed, kvChecked, sendCount, polls, pc,
                   brandSlug, etype, mentionLocals, likeLocals, result, skipped,
                   requests, stored, privateKey, channels, posted, cycle,
                   brandList, results, typeResults, invocations, vault, streak,
                   inbound>>

InitPolling ==
    /\ InitKV
    /\ InitLocals
    /\ NoCycle
    /\ channels = AnyAnswer
    /\ posted = 0
    /\ stored = [t \in Tenants \cup {Handle} |-> "ok"]
    /\ brandSlug = Handle
    /\ etype = "mention"
    /\ privateKey = TRUE
    /\ vault = NoVault
    /\ polling = NoPolling
    /\ streak = NoStreak
    /\ inbound = NoRequest

NextPolling == pollCampaign \/ processEngagement \/ pollComplete

SpecPolling == InitPolling /\ [][NextPolling]_vars

(***************************************************************************)
(* The streak client: recordTwitterEngagement                               *)
(***************************************************************************)
\* a recordTwitterEngagement without its try/catch
recordTwitterEngagementUncaught(answer) ==
    IF answer.kind = "rejected" THEN [thrown |-> TRUE]
    ELSE IF answer.kind = "status" /\ answer.status \in 200..299
    THEN [thrown |-> FALSE,
          returned |-> [multiplier |-> 1, currentStreak |-> 0,
                        success |-> TRUE]]
    ELSE [thrown |-> FALSE,
          returned |-> [multiplier |-> 1, currentStreak |-> 0,
                        success |-> FALSE]]

\* the values of the default result
DefaultMultiplier == 1
DefaultStreak == 0
DefaultStreakResult ==
    [multiplier |-> DefaultMultiplier, currentStreak |-> DefaultStreak,
     success |-> FALSE]

\* a field the body does not carry (undefined)
Absent == -1

\* what the streak service can answer: the request fails, or a status with
\* a body.  A body is text that is no JSON, the JSON null, a JSON number,
\* or an object that may carry a multiplier and a streak
StreakStatuses == {200, 201, 400, 401, 404, 429, 500, 503}
StreakMultipliers == {Absent, 0, 1, 2, 3}
StreakCounts == {Absent, 0, 1, 5, 7}
StreakBodies ==
    {[json |-> "invalid"], [json |-> "null"], [json |-> "number"]}
        \cup [json : {"object"}, multiplier : StreakMultipliers,
              currentStreak : StreakCounts]
StreakAnswers ==
    {[kind |-> "rejected"]}
        \cup [kind : {"status"}, status : StreakStatuses, body : StreakBodies]

\* response.ok
Ok(status) == status \in 200..299

\* value || fallback for a field that holds a number or is absent
OrElse(value, fallback) ==
    IF value = Absent \/ value = 0 THEN fallback ELSE value

\* recordTwitterEngagement, given what the streak service answers
recordTwitterEngagement(answer) ==
    IF answer.kind = "rejected"
    THEN [thrown |-> FALSE, returned |-> DefaultStreakResult]
    ELSE IF ~Ok(answer.status)
    THEN [thrown |-> FALSE, returned |-> DefaultStreakResult]
    ELSE IF answer.body.json \in {"invalid", "null"}
    THEN \* response.json() rejects, or a field of null is read: caught
         [thrown |-> FALSE, returned |-> DefaultStreakResult]
    ELSE IF answer.body.json = "number"
    THEN [thrown |-> FALSE,
          returned |-> [multiplier |-> DefaultMultiplier,
                        currentStreak |-> DefaultStreak,
                        success |-> TRUE]]
    ELSE [thrown |-> FALSE,
          returned |-> [multiplier |-> OrElse(answer.body.multiplier,
                                              DefaultMultiplier),
                        currentStreak |-> OrElse(answer.body.currentStreak,
                                                 DefaultStreak),
                        success |-> TRUE]]

StreakUsers == {"u1", "u2"}

\* the userIdentifier of the request body
userIdentifier(twitterUserId) == <<"twitter_", twitterUserId, "@loyalteez.app">>

\* a caller records an engagement and the streak service answers
recordEngagement ==
    /\ ~streak.called
    /\ streak' = [called |-> TRUE,
                  answer |-> streak.answer,
                  twitterUserId |-> streak.twitterUserId,
                  request |-> [userIdentifier |->
                                   userIdentifier(streak.twitterUserId),
                               platform |-> "twitter",
                               streakType |-> "engagement"],
                  outcome |-> recordTwitterEngagement(streak.answer)]
    /\ UNCHANGED <<kvHighwater, kvProcessed, kvChecked, sendCount, polls, pc,
                   brandSlug, etype, mentionLocals, likeLocals, result, skipped,
                   requests, stored, privateKey, channels, posted, cycle,
                   brandList, results, typeResults, invocations, vault,
                   polling, inbound>>

InitStreak ==
    /\ InitKV
    /\ InitLocals
    /\ NoCycle
    /\ channels = AnyAnswer
    /\ posted = 0
    /\ stored = [t \in Tenants \cup {Handle} |-> "ok"]
    /\ brandSlug = Handle
    /\ etype = "mention"
    /\ privateKey = TRUE
    /\ vault = NoVault
    /\ polling = NoPolling
    /\ \E answer \in StreakAnswers, user \in StreakUsers :
          streak = [called |-> FALSE, answer |-> answer,
                    twitterUserId |-> user]
    /\ inbound = NoRequest

NextStreak == recordEngagement

SpecStreak == InitStreak /\ [][NextStreak]_vars

(***************************************************************************)
(* The recent search against what the upstream holds: the engagements that  *)
(* match the query are numbered 1..posted in the order they were posted,    *)
(* and a search answers with the newest MaxResults of those newer than      *)
(* since_id, newest first; the rest is behind meta.next_token               *)
(***************************************************************************)
\* engagements posted in one behaviour
MaxPosted == 12

\* the id of the n-th engagement as a decimal string
IdOf(n) == IF n < 10 THEN <<n>> ELSE <<n \div 10, n % 10>>

\* data.data of GET tweets/search/recent?...&max_results=10[&since_id=...]
SearchRecent(held, sinceId) ==
    LET oldest == IF sinceId = Null THEN 1 ELSE BigInt(sinceId) + 1
        matching == IF held < oldest THEN 0 ELSE held - oldest + 1
        size == IF matching > MaxResults THEN MaxResults ELSE matching
    IN  [i \in 1..size |-> IdOf(held - i + 1)]

\* somebody mentions the brand
post ==
    /\ pc = "idle"
    /\ posted < MaxPosted
    /\ posted' = posted + 1
    /\ UNCHANGED <<kvHighwater, kvProcessed, kvChecked, sendCount, polls, pc,
                   brandSlug, etype, mentionLocals, likeLocals, result, skipped,
                   requests, stored, privateKey, channels, cycle, brandList,
                   results, typeResults, invocations, components>>

\* pollTwitterMentions up to its loop, the search answered from what the
\* upstream holds; the poll never asks for a further page
pollPosted(t) ==
    /\ pc = "idle"
    /\ polls < PollLimit
    /\ polls' = polls + 1
    /\ brandSlug = t
    /\ etype = "mention"
    /\ LET last == kvHighwater[highWaterKey(t, "mention")]
           data == SearchRecent(posted, last)
       IN  StartLoop(last, data, data)
    /\ UNCHANGED <<kvHighwater, kvProcessed, kvChecked, sendCount, brandSlug,
                   etype, fixed>>

InitPaging ==
    /\ InitKV
    /\ InitLocals
    /\ NoCycle
    /\ channels = AnyAnswer
    /\ posted = 0
    /\ ComponentsIdle
    /\ privateKey = TRUE
    /\ stored = [t \in Tenants \cup {Handle} |-> "ok"]
    /\ brandSlug \in Tenants
    /\ etype = "mention"

NextPaging ==
    \/ post
    \/ \E t \in Tenants : pollPosted(t)
    \/ TweetLoop
    \/ AdvanceHighWater
    \/ Return

SpecPaging == InitPaging /\ [][NextPaging]_vars

(***************************************************************************)
(* Two requests that trigger the same mention or reply poll while the other *)
(* is still running: each `await` of the poll is a step of its own, and the *)
(* steps of the two invocations interleave over the one store               *)
(***************************************************************************)
\* a poll that sends whatever its read of the marker gave
SendAnyway(alreadyProcessed) == TRUE

Invocations == {1, 2}

\* ids in the answer of a search while two invocations overlap
OverlapBatch == 2
OverlapIds == {<<8>>, <<9>>}
OverlapPages == SeqsOf(OverlapIds, OverlapBatch)

\* the locals of one invocation; read and sent keep the ids for which its
\* KV.get of the marker gave null and the ids it handed to sendRewardEvent
IdleInvocation ==
    [pc |-> "idle", tweets |-> <<>>, next |-> 1, newestTweetId |-> Null,
     success |-> FALSE, result |-> NoResult, read |-> {}, sent |-> {}]

\* if (alreadyProcessed) continue
ShouldSend(alreadyProcessed) == ~alreadyProcessed

\* the one step of invocation i
Step(i, after) ==
    /\ invocations' = [invocations EXCEPT ![i] = after]
    /\ UNCHANGED <<polls, pc, brandSlug, etype, mentionLocals, likeLocals,
                   result, skipped, requests, environment,
                   cycle, brandList, results, typeResults, kvChecked>>

\* the poll up to its loop: the cursor is read, the search answered
overlapSearch(i) ==
    LET me == invocations[i] IN
    /\ me.pc = "idle"
    /\ \E data \in OverlapPages :
          LET last == kvHighwater[highWaterKey(brandSlug, etype)]
              batch == FirstRunSlice(data, last)
          IN  Step(i, [me EXCEPT !.pc = IF Len(batch) = 0 THEN "done" ELSE "loop",
                                 !.tweets = batch,
                                 !.newestTweetId = IF Len(batch) = 0 THEN Null ELSE last,
                                 !.result = [NoResult EXCEPT !.found = Len(batch)]])
    /\ UNCHANGED <<kvHighwater, kvProcessed, sendCount>>

\* const alreadyProcessed = await KV.get(processedKey)
overlapGet(i) ==
    LET me == invocations[i] IN
    /\ me.pc = "loop"
    /\ me.next <= Len(me.tweets)
    /\ LET tweet == me.tweets[me.next]
           alreadyProcessed ==
               AlreadyProcessed(kvProcessed, <<brandSlug, etype, tweet>>)
       IN  IF ShouldSend(alreadyProcessed)
           THEN Step(i, [me EXCEPT !.pc = "send",
                                  !.read = IF alreadyProcessed THEN @
                                           ELSE @ \cup {tweet}])
           ELSE Step(i, [me EXCEPT !.next = @ + 1])
    /\ UNCHANGED <<kvHighwater, kvProcessed, sendCount>>

\* const success = await this.sendRewardEvent(...)
overlapSend(i) ==
    LET me == invocations[i] IN
    /\ me.pc = "send"
    /\ LET tweet == me.tweets[me.next] IN
       /\ sendCount' = Sent(sendCount, <<brandSlug, etype, tweet>>)
       /\ \E outcome \in DispatchOutcomes :
              Step(i, [me EXCEPT !.pc = "put",
                                !.success = outcome.returned,
                                !.sent = @ \cup {tweet}])
    /\ UNCHANGED <<kvHighwater, kvProcessed>>

\* the count, await KV.put(processedKey, 'true'), the newest id
overlapPut(i) ==
    LET me == invocations[i] IN
    /\ me.pc = "put"
    /\ LET tweet == me.tweets[me.next] IN
       /\ kvProcessed' = MarkProcessed(kvProcessed, <<brandSlug, etype, tweet>>,
                                       me.success)
       /\ Step(i, [me EXCEPT !.pc = "loop",
                             !.next = @ + 1,
                             !.result = Count(@, me.success),
                             !.newestTweetId = Newest(@, tweet)])
    /\ UNCHANGED <<kvHighwater, sendCount>>

\* after the loop: if (newestTweetId) await KV.put(highWaterKey, ...)
overlapAdvance(i) ==
    LET me == invocations[i] IN
    /\ me.pc = "loop"
    /\ me.next > Len(me.tweets)
    /\ kvHighwater' = PutHighWater(kvHighwater, highWaterKey(brandSlug, etype),
                                   me.newestTweetId)
    /\ Step(i, [me EXCEPT !.pc = "done"])
    /\ UNCHANGED <<kvProcessed, sendCount>>

InitOverlap ==
    /\ InitKV
    /\ InitLocals
    /\ cycle = "off"
    /\ brandList = <<>>
    /\ results = <<>>
    /\ typeResults = NoTypeResults
    /\ channels = AnyAnswer
    /\ posted = 0
    /\ ComponentsIdle
    /\ privateKey = TRUE
    /\ stored = [t \in Tenants \cup {Handle} |-> "ok"]
    /\ brandSlug \in Tenants
    /\ etype \in CursorTypes
    /\ invocations = [i \in Invocations |-> IdleInvocation]

NextOverlap ==
    \E i \in Invocations :
        \/ overlapSearch(i)
        \/ overlapGet(i)
        \/ overlapSend(i)
        \/ overlapPut(i)
        \/ overlapAdvance(i)

SpecOverlap == InitOverlap /\ [][NextOverlap]_vars

(***************************************************************************)
(* scheduled(): one cron cycle over the configured brands, and              *)
(* pollAllEngagements for each active brand                                 *)
(***************************************************************************)
\* a cycle that polls a brand whatever its is_active
AlwaysActive(brandConfig) == TRUE

\* a brand whose polls end with the first type that reports an error
BrandDoneOnError(ty, outcome) ==
    ty = "retweet" \/ outcome[ty].errors # <<>>

\* a cycle that ends with the first brand whose handling throws
AfterFailureStop(list) == <<>>

\* brandList.keys: KV.list gives the keys in lexicographic order
BrandKeys == <<"acme", "globex">>

\* the order of the polls in pollAllEngagements
TypeOrder == <<"mention", "reply", "like", "retweet">>
TypeOrderSet == {TypeOrder[i] : i \in 1..Len(TypeOrder)}

\* the try/catch of type ty was the last of pollAllEngagements, whatever
\* its outcome
BrandDone(ty, outcome) == ty = TypeOrder[Len(TypeOrder)]

\* the brands still to handle after the catch of scheduled()'s loop body
AfterFailure(list) == Tail(list)

\* if (!brandConfig.is_active) continue
IsActive(brandConfig) == brandConfig # "inactive"

scheduled ==
    /\ cycle = "cron"
    /\ cycle' = "brands"
    /\ brandList' = BrandKeys
    /\ results' = <<>>
    /\ UNCHANGED <<kvHighwater, kvProcessed, kvChecked, sendCount, polls, pc,
                   brandSlug, etype, mentionLocals, likeLocals, result, skipped,
                   requests, environment, typeResults, invocations>>

\* pollAllEngagements returns { error, results } before any poll
EarlyReturn(slug, msg) ==
    /\ results' = Append(results, [brand |-> slug, status |-> "success",
                                   error |-> msg, results |-> NoTypeResults])
    /\ brandList' = Tail(brandList)
    /\ UNCHANGED <<cycle, brandSlug, etype, typeResults>>

\* one turn of `for (const key of brandList.keys)` up to the first poll
nextBrand ==
    /\ cycle = "brands"
    /\ brandList # <<>>
    /\ LET slug == Head(brandList)
           brandConfig == stored[slug]
       IN  IF brandConfig = "corrupt"
           THEN \* JSON.parse throws: the catch records the brand
                /\ results' = Append(results, [brand |-> slug, status |-> "error"])
                /\ brandList' = AfterFailure(brandList)
                /\ UNCHANGED <<cycle, brandSlug, etype, typeResults>>
           ELSE IF ~IsActive(brandConfig)
           THEN /\ brandList' = Tail(brandList)
                /\ UNCHANGED <<cycle, brandSlug, etype, typeResults, results>>
           ELSE IF getDecryptedBearerToken(brandConfig, privateKey) = Null
           THEN EarlyReturn(slug, <<"No valid bearer token">>)
           ELSE IF ~HasHandle(brandConfig)
           THEN EarlyReturn(slug, <<"No Twitter handle configured">>)
           ELSE /\ cycle' = "polls"
                /\ brandSlug' = slug
                /\ etype' = TypeOrder[1]
                /\ typeResults' = NoTypeResults
                /\ UNCHANGED <<brandList, results>>
    /\ UNCHANGED <<kvHighwater, kvProcessed, kvChecked, sendCount, polls, pc,
                   mentionLocals, likeLocals, result, skipped, requests, environment, invocations>>

\* the poll of one type is over: its outcome is in results, the next type
\* follows, and after the last the brand is pushed onto the cycle's results
NextPoll(outcome) ==
    /\ typeResults' = outcome
    /\ pc' = "idle"
    /\ lastTweetId' = Null /\ upstream' = <<>> /\ tweets' = <<>> /\ next' = 1
    /\ newestTweetId' = Null
    /\ brandTweets' = <<>> /\ nextTweet' = 1 /\ likers' = <<>> /\ nextLiker' = 1
    /\ allLikers' = <<>> /\ response' = "none"
    /\ result' = NoResult /\ skipped' = {}
    /\ requests' = <<>>
    /\ IF BrandDone(etype, outcome)
       THEN /\ results' = Append(results, [brand |-> brandSlug,
                                           status |-> "success",
                                           results |-> outcome])
            /\ brandList' = Tail(brandList)
            /\ cycle' = "brands"
            /\ UNCHANGED etype
       ELSE /\ etype' = TypeOrder[(CHOOSE i \in 1..Len(TypeOrder) :
                                       TypeOrder[i] = etype) + 1]
            /\ UNCHANGED <<results, brandList, cycle>>
    /\ UNCHANGED <<kvHighwater, kvProcessed, kvChecked, sendCount, polls,
                   brandSlug, environment, invocations>>

\* results.mentions = mentionResult (and so for the other types)
pollReturned ==
    /\ cycle = "polls"
    /\ pc = "done"
    /\ NextPoll([typeResults EXCEPT ![etype] = result])

\* a pollAllEngagements without try/catch around its polls: the exception
\* of a poll reaches the catch of scheduled(), which records the brand as an
\* error and goes on with the next brand
pollUncaught ==
    /\ cycle = "polls"
    /\ pc = "thrown"
    /\ results' = Append(results, [brand |-> brandSlug, status |-> "error"])
    /\ brandList' = Tail(brandList)
    /\ cycle' = "brands"
    /\ pc' = "idle"
    /\ lastTweetId' = Null /\ upstream' = <<>> /\ tweets' = <<>> /\ next' = 1
    /\ newestTweetId' = Null
    /\ brandTweets' = <<>> /\ nextTweet' = 1 /\ likers' = <<>> /\ nextLiker' = 1
    /\ allLikers' = <<>> /\ response' = "none"
    /\ result' = NoResult /\ skipped' = {}
    /\ requests' = <<>>
    /\ UNCHANGED <<kvHighwater, kvProcessed, kvChecked, sendCount, polls,
                   brandSlug, etype, typeResults, environment,
                   invocations>>

\* catch (error) { results.mentions.errors.push(error.message) }
pollCaught ==
    /\ cycle = "polls"
    /\ pc = "thrown"
    /\ NextPoll([typeResults EXCEPT ![etype].errors = Append(@, <<"thrown">>)])

\* a KV call of the mention or reply loop rejects: the exception leaves the
\* poll, which has no try of its own around the loop
kvRejects ==
    /\ pc = "loop"
    /\ pc' = "thrown"
    /\ UNCHANGED <<kvHighwater, kvProcessed, kvChecked, sendCount, polls,
                   brandSlug, etype, mentionLocals, likeLocals, result, skipped,
                   requests, fixed>>

\* console.log('Cron complete')
cronComplete ==
    /\ cycle = "brands"
    /\ brandList = <<>>
    /\ cycle' = "end"
    /\ UNCHANGED <<kvHighwater, kvProcessed, kvChecked, sendCount, polls, pc,
                   brandSlug, etype, mentionLocals, likeLocals, result, skipped,
                   requests, environment, brandList, results,
                   typeResults, invocations>>

(***************************************************************************)
(* The bounds of a cycle: short upstream answers, and few polls whose       *)
(* upstream answers hold anything but an empty page                         *)
(***************************************************************************)
\* ids in one upstream answer during a cycle
CycleBatch == 1
\* polls of one cycle that get an error or a non-empty answer
MaxEvents == 2
\* the ids the upstream answers with during a cycle
CycleIds == {<<8>>, ForeignId}
CyclePosts == {<<5>>}
CycleActors == {<<1>>}

\* an outcome of a poll that is not the one of an empty answer
Eventful(res) == res.errors # <<>> \/ res.found > 0

\* the poll of ty for tenant t has received, or has left in the store or in
\* its result, something else than an empty answer
HadEvent(t, ty) ==
    \/ /\ cycle = "polls"
       /\ t = brandSlug
       /\ \/ /\ ty = etype
             /\ \/ upstream # <<>>
                \/ brandTweets # <<>>
                \/ result.errors # <<>>
          \/ Eventful(typeResults[ty])
    \/ \E i \in 1..Len(results) :
          /\ results[i].brand = t
          /\ "results" \in DOMAIN results[i]
          /\ Eventful(results[i].results[ty])
    \/ \E k \in DOMAIN kvChecked : k[1] = t /\ k[2] = ty

CycleBound ==
    /\ Len(upstream) <= CycleBatch /\ Range(upstream) \subseteq CycleIds
    /\ Len(brandTweets) <= CycleBatch /\ Range(brandTweets) \subseteq CyclePosts
    /\ Len(allLikers) <= CycleBatch /\ Range(allLikers) \subseteq CycleActors
    /\ Cardinality({k \in Tenants \X Types : HadEvent(k[1], k[2])}) <= MaxEvents

InitCycle ==
    /\ InitKV
    /\ InitLocals
    /\ channels = AnyAnswer
    /\ posted = 0
    /\ ComponentsIdle
    /\ cycle = "cron"
    /\ brandList = <<>>
    /\ results = <<>>
    /\ typeResults = NoTypeResults
    /\ invocations = NoInvocation
    /\ brandSlug = BrandKeys[1]
    /\ etype = TypeOrder[1]
    /\ privateKey \in BOOLEAN
    /\ \E configs \in [Tenants -> ConfigKinds] :
           stored = [t \in Tenants \cup {Handle} |->
                        IF t = Handle THEN "ok" ELSE configs[t]]

NextCycle ==
    \/ scheduled
    \/ nextBrand
    \/ \E t \in Tenants : cycle = "polls" /\ pollTwitterMentions(t) /\ CycleBound'
    \/ \E t \in Tenants : cycle = "polls" /\ pollTwitterReplies(t) /\ CycleBound'
    \/ \E t \in Tenants : cycle = "polls" /\ pollTwitterLikes(t) /\ CycleBound'
    \/ \E t \in Tenants : cycle = "polls" /\ pollTwitterRetweets(t) /\ CycleBound'
    \/ cycle = "polls" /\ TweetLoop
    \/ cycle = "polls" /\ AdvanceHighWater
    \/ cycle = "polls" /\ getTweetLikers /\ CycleBound'
    \/ cycle = "polls" /\ LikerLoop
    \/ cycle = "polls" /\ ActorPollDone
    \/ cycle = "polls" /\ kvRejects
    \/ pollReturned
    \/ pollCaught
    \/ cronComplete

SpecCycle == InitCycle /\ [][NextCycle]_vars

\* every await of the cycle comes back: a step that can be taken is taken
SpecCycleLive == SpecCycle /\ WF_vars(NextCycle)

(***************************************************************************)
(* The fetch handlers: a request for /trigger/<type> is answered at once    *)
(* or starts the poll of that type and is answered when the poll returns    *)
(***************************************************************************)
\* a type check that lets every type through
IsValidTypeAny(eventType) == TRUE

\* const validTypes
validTypes == <<"mentions", "replies", "likes", "retweets">>

\* validTypes.includes(eventType)
IsValidType(eventType) == eventType \in Range(validTypes)

\* the cases of the switch in handleTriggerType and pollEngagementType
PollOf == [mentions |-> "mention", replies |-> "reply", likes |-> "like",
           retweets |-> "retweet"]

\* what can follow /trigger/ in a path
TypeNames == {"mentions", "replies", "likes", "retweets", "quotes", "invalid", ""}
Paths == {<<"trigger", ty>> : ty \in TypeNames} \cup {<<"status">>}
Methods == {"GET", "POST", "OPTIONS"}

\* the host of a request to the router: a tenant with a stored
\* configuration, a brand with none, a reserved subdomain that is not proxied
Hosts == {"tenant", "unknown", "reserved"}
Requests == [method : Methods, host : Hosts, path : Paths]

\* the single-tenant worker has one host; its likes and retweets polls are
\* left out of the requests
IndexRequests ==
    {r \in Requests : r.host = "tenant"
                        /\ r.path \notin {<<"trigger", "likes">>,
                                           <<"trigger", "retweets">>}}

\* url.pathname.startsWith('/trigger/')
IsTriggerPath(path) == Len(path) = 2 /\ path[1] = "trigger"

jsonResponse(data, status) == [status |-> status, body |-> data]
jsonError(message, status) ==
    jsonResponse([success |-> FALSE, error |-> message], status)
Handler(ty) == [handler |-> "handleTriggerType", type |-> ty]

\* fetch of router.js up to the handler: a response, or the poll to start
routerFetch(request, config) ==
    IF request.method = "OPTIONS" THEN jsonResponse(<<>>, 200)
    ELSE IF request.host = "reserved"
    THEN jsonResponse([service |-> "twitter-loyalty-router"], 200)
    ELSE IF request.host = "unknown"
    THEN jsonError(<<"Brand not configured">>, 404)
    ELSE IF config = "corrupt"
    THEN jsonError(<<"Error">>, 500)
    ELSE IF IsTriggerPath(request.path) /\ request.method = "POST"
    THEN IF ~IsValidType(request.path[2])
         THEN jsonError(<<"Invalid event type", validTypes>>, 400)
         ELSE IF request.path[2] \in DOMAIN PollOf
              THEN Handler(request.path[2])
              ELSE jsonError(<<"Poll failed", "Unknown type">>, 500)
    ELSE IF IsTriggerPath(request.path)
    THEN jsonError(<<"Method not allowed">>, 405)
    ELSE jsonError(<<"Not found">>, 404)

\* fetch of index.js up to pollEngagementType
indexFetchRoute(request) ==
    IF request.method = "OPTIONS" THEN jsonResponse(<<>>, 200)
    ELSE IF IsTriggerPath(request.path) /\ request.method = "POST"
    THEN IF ~IsValidType(request.path[2])
         THEN jsonError(<<"Invalid event type", validTypes>>, 400)
         ELSE IF request.path[2] \in DOMAIN PollOf
              THEN Handler(request.path[2])
              ELSE jsonError(<<"Unknown engagement type">>, 500)
    ELSE jsonResponse(<<"Twitter Loyalty Bot Active">>, 200)

\* the request is answered, or its poll is started
Routed(request, route) ==
    /\ pc = "idle"
    /\ inbound.phase \in {"idle", "answered"}
    /\ IF "handler" \in DOMAIN route
       THEN /\ polls < PollLimit
            /\ inbound' = [phase |-> "polling", request |-> request,
                           type |-> route.type]
            /\ etype' = PollOf[route.type]
       ELSE /\ inbound' = [phase |-> "answered", request |-> request,
                           response |-> route]
            /\ etype' = etype
    /\ UNCHANGED <<kvHighwater, kvProcessed, kvChecked, sendCount, polls, pc,
                   brandSlug, mentionLocals, likeLocals, result, skipped,
                   requests, stored, privateKey, channels, posted, cycle,
                   brandList, results, typeResults, invocations, vault,
                   polling, streak>>

\* a request comes in at the router for the host of tenant t
fetch(t) ==
    /\ brandSlug = t
    /\ \E request \in Requests : Routed(request, routerFetch(request, stored[t]))

\* a request comes in at the single-tenant worker
indexFetch ==
    /\ brandSlug = Handle
    /\ \E request \in IndexRequests : Routed(request, indexFetchRoute(request))

\* the poll has returned or thrown: handleTriggerType answers
respond ==
    /\ inbound.phase = "polling"
    /\ pc \in {"done", "thrown"}
    /\ inbound' =
          [phase |-> "answered",
           request |-> inbound.request,
           response |->
               IF pc = "done"
               THEN jsonResponse([success |-> TRUE,
                                  message |-> <<inbound.type, "polled">>,
                                  result |-> result], 200)
               ELSE jsonError(<<"Poll failed">>, 500)]
    /\ UNCHANGED <<kvHighwater, kvProcessed, kvChecked, sendCount, polls, pc,
                   brandSlug, etype, mentionLocals, likeLocals, result, skipped,
                   requests, stored, privateKey, channels, posted, cycle,
                   brandList, results, typeResults, invocations, vault,
                   polling, streak>>

\* the searches of the routed polls answer with at most one engagement
RouteBound ==
    /\ Len(upstream) <= CycleBatch /\ Range(upstream) \subseteq CycleIds
    /\ Len(brandTweets) <= CycleBatch /\ Range(brandTweets) \subseteq CyclePosts
    /\ Len(allLikers) <= CycleBatch /\ Range(allLikers) \subseteq CycleActors

Polling == inbound.phase = "polling"

InitRoute ==
    /\ InitKV
    /\ InitLocals
    /\ NoCycle
    /\ channels = AnyAnswer
    /\ posted = 0
    /\ vault = NoVault
    /\ polling = NoPolling
    /\ streak = NoStreak
    /\ inbound = NoRequest
    /\ etype = "mention"
    /\ \/ /\ brandSlug \in Tenants
          /\ privateKey \in BOOLEAN
          /\ \E kind \in TriggerConfigs \cup {"corrupt"} :
                 stored = [t \in Tenants \cup {Handle} |->
                              IF t = brandSlug THEN kind ELSE "ok"]
       \/ /\ brandSlug = Handle
          /\ privateKey = TRUE
          /\ \E kind \in WorkerConfigs :
                 stored = [t \in Tenants \cup {Handle} |->
                              IF t = Handle THEN kind ELSE "ok"]

NextRoute ==
    \/ \E t \in Tenants : fetch(t)
    \/ indexFetch
    \/ respond
    \/ \E t \in Tenants : Polling /\ pollTwitterMentions(t) /\ RouteBound'
    \/ \E t \in Tenants : Polling /\ pollTwitterReplies(t) /\ RouteBound'
    \/ \E t \in Tenants : Polling /\ pollTwitterLikes(t) /\ RouteBound'
    \/ \E t \in Tenants : Polling /\ pollTwitterRetweets(t) /\ RouteBound'
    \/ Polling /\ indexPollTwitterMentions /\ RouteBound'
    \/ Polling /\ indexPollTwitterReplies /\ RouteBound'
    \/ TweetLoop
    \/ AdvanceHighWater
    \/ getTweetLikers /\ RouteBound'
    \/ LikerLoop
    \/ ActorPollDone
    \/ processTweet
    \/ indexAdvanceHighWater
    \/ ~Polling /\ Return

SpecRoute == InitRoute /\ [][NextRoute]_vars

(***************************************************************************)
(* The like and retweet polls of one post over a store that earlier polls   *)
(* have left: some actors dispatched and marked, the actor-id cache of the  *)
(* post holding any list or gone.  Markers are kept; cache entries expire   *)
(***************************************************************************)
\* the actors a marker can be there for
EarlierActors == SUBSET Actors

\* the cache entry of a post: Null for none
CacheEntry(key, list) ==
    IF list = Null THEN [k \in {} |-> Null] ELSE PutChecked([k \in {} |-> Null], key, list)

\* one brand tweet per timeline
ActorBound == Len(brandTweets) <= CycleBatch /\ Range(brandTweets) \subseteq CyclePosts

InitActors ==
    /\ InitLocals
    /\ NoCycle
    /\ channels = AnyAnswer
    /\ posted = 0
    /\ ComponentsIdle
    /\ privateKey = TRUE
    /\ stored = [t \in Tenants \cup {Handle} |-> "ok"]
    /\ brandSlug \in Tenants
    /\ etype \in ActorTypes
    /\ kvHighwater = [k \in CursorKeys |-> Null]
    /\ \E earlier \in EarlierActors, p \in CyclePosts :
          /\ kvProcessed = {<<brandSlug, etype, EventId(p, a)>> : a \in earlier}
          /\ sendCount = [k \in kvProcessed |-> 1]
          /\ \E list \in ActorPages \cup {Null} :
                kvChecked = CacheEntry(<<brandSlug, etype, p>>, list)

NextActors ==
    \/ \E t \in Tenants : pollTwitterLikes(t) /\ ActorBound'
    \/ \E t \in Tenants : pollTwitterRetweets(t) /\ ActorBound'
    \/ getTweetLikers
    \/ LikerLoop
    \/ ActorPollDone
    \/ Return
    \/ \E key \in CacheKeys : ExpireChecked(key)

SpecActors == InitActors /\ [][NextActors]_vars

(***************************************************************************)
(* Properties                                                              *)
(***************************************************************************)
ProcessedKey(id) == <<brandSlug, etype, id>>

\* the poll stands before an engagement of its batch
Handling ==
    \/ pc = "loop" /\ next <= Len(tweets)
    \/ pc = "tweets" /\ nextLiker <= Len(likers)

\* the id of that engagement
CurrentId ==
    IF pc = "loop" THEN tweets[next]
    ELSE EventId(brandTweets[nextTweet - 1], likers[nextLiker])

Dispatched == result.rewarded + result.failed

\* C1: for every tenant, engagement type and engagement id the reward event
\* is dispatched at most once while the processed marker of that engagement
\* has not expired (sendCount counts the dispatches since the marker was
\* last absent).
C1_AtMostOnce == \A k \in DOMAIN sendCount : sendCount[k] <= 1

\* a second poll met an engagement dispatched before and skipped it
C1_Witness ==
    /\ polls = 2
    /\ pc = "done"
    /\ \E id \in skipped : /\ Sends(sendCount, ProcessedKey(id)) = 1
                            /\ ProcessedKey(id) \in kvProcessed

\* C2: every engagement for which a dispatch is attempted has its processed
\* marker once the attempt is over, whether the dispatch returned true or
\* false, and no engagement is dispatched while it has its marker: a failed
\* dispatch is not repeated by a later poll while the marker lasts.
C2_MarkedWhateverOutcome ==
    [][sendCount' # sendCount =>
          \A k \in DOMAIN sendCount' :
              /\ Sends(sendCount', k) > Sends(sendCount, k) => k \in kvProcessed'
              /\ k \in kvProcessed
                    => Sends(sendCount', k) <= Sends(sendCount, k)]_vars

\* the only dispatch of the poll so far returned false and left its marker
C2_Witness ==
    /\ pc = "loop"
    /\ next = 2
    /\ result.failed = 1
    /\ result.rewarded = 0
    /\ ProcessedKey(tweets[1]) \in kvProcessed

\* C3: an engagement whose processed marker is already present is not sent
\* to the reward pipeline and is counted neither in rewarded nor in failed.
C3_ProcessedNotCounted ==
    [][(Handling /\ ProcessedKey(CurrentId) \in kvProcessed)
          => /\ sendCount' = sendCount
             /\ result'.rewarded = result.rewarded
             /\ result'.failed = result.failed]_vars

\* the first engagement of the batch was found processed and passed over
C3_Witness ==
    /\ pc = "loop"
    /\ next = 2
    /\ tweets[1] \in skipped
    /\ Dispatched = 0
    /\ Sends(sendCount, ProcessedKey(tweets[1])) = 1

CursorKey == <<brandSlug, etype>>

\* a mention or reply poll went through its whole non-empty batch and returned
LoopFinished ==
    /\ etype \in CursorTypes
    /\ pc = "done"
    /\ Len(tweets) > 0
    /\ next > Len(tweets)

\* the answer the search API gives for since_id = cursor: only ids above the
\* cursor, the newest first
AboveSince == \A id \in Range(upstream) : BigInt(id) > BigInt(lastTweetId)

NewestFirst ==
    \A i, j \in 1..Len(upstream) :
        i < j => BigInt(upstream[i]) > BigInt(upstream[j])

\* a step of POST /reset
Reset == indexReset \/ \E t \in Tenants : handleReset(t)

\* C4: when the newest id of a mention or reply batch already has its
\* processed marker, the cursor of that tenant and type is, after the poll,
\* at least that id.
C4_CursorPassesProcessedNewest ==
    (LoopFinished /\ MaxId(tweets) \in skipped)
        => BigInt(kvHighwater[CursorKey]) >= BigInt(MaxId(tweets))

\* C5: after a mention or reply poll whose batch holds new engagements, the
\* stored cursor of that tenant and type is the numerically greatest id of
\* the batch, whether or not dispatches failed (stated for the answers that
\* hold only ids above the cursor the poll started from, the newest first).
C5_CursorIsBatchMaximum ==
    (LoopFinished /\ Dispatched > 0 /\ AboveSince /\ NewestFirst)
        => kvHighwater[CursorKey] = MaxId(tweets)

Candidates == IF etype = "reply" THEN RepliesToBrand(upstream) ELSE upstream

\* C8: on a mention or reply poll with no stored cursor to which the
\* upstream gives more than 3 engagements, only the first 3 of the list are
\* considered, before any marker check and any dispatch (nothing is
\* dispatched if those 3 are processed), and the cursor ends at the newest
\* of those 3 (stated for the answers that come newest first).
C8_FirstRunThree ==
    (/\ LoopFinished
     /\ lastTweetId = Null
     /\ Len(Candidates) > FirstRunLimit
     /\ NewestFirst)
        => /\ tweets = SubSeq(Candidates, 1, FirstRunLimit)
           /\ Dispatched <= FirstRunLimit
           /\ (Range(tweets) \subseteq skipped => Dispatched = 0)
           /\ kvHighwater[CursorKey] = MaxId(tweets)

\* C9: the first poll of an engagement type, likes and retweets included,
\* dispatches at most 3 engagements.
C9_FirstPollAtMostThree == polls = 1 => Dispatched <= FirstRunLimit

\* C10: a fetch of the actors F of a post whose cache holds C gives the poll
\* exactly the actors of F that are not in C, and leaves F as the cache.
C10_NewLikersAndCache ==
    [][(pc = "tweets" /\ nextTweet' = nextTweet + 1 /\ response' = "ok")
          => LET cacheKey == <<brandSlug, etype, brandTweets[nextTweet]>>
             IN  /\ Range(likers') =
                        Range(allLikers')
                            \ Range(Cached(kvChecked, cacheKey))
                 /\ Len(likers') = Cardinality(Range(likers'))
                 /\ cacheKey \in DOMAIN kvChecked'
                 /\ kvChecked'[cacheKey] = allLikers']_vars

\* a fetch met a non-empty cache: one fetched actor was in it and is left
\* out, one is new, and the cache holds the fetched list
C10_Witness ==
    /\ pc = "tweets"
    /\ response = "ok"
    /\ nextTweet > 1
    /\ Len(allLikers) = 2
    /\ Len(likers) = 1
    /\ polls = 2
    /\ Cached(kvChecked,
              <<brandSlug, etype, brandTweets[nextTweet - 1]>>) = allLikers

\* the only engagement of the batch of a poll of SpecDispatch
OnlyEvent ==
    IF etype \in CursorTypes THEN tweets[1]
    ELSE EventId(brandTweets[1], likers[1])

\* the poll has made its dispatch and has not returned yet
DispatchMade == pc # "idle" /\ Sends(sendCount, ProcessedKey(OnlyEvent)) = 1

\* the call of sendRewardEvent that this poll made
TheDelivery ==
    sendRewardEvent(Payload(brandSlug, etype, OnlyEvent),
                    channels.binding, channels.http)

\* the internal channel was tried and failed: transport error, non-2xx
\* status, or a body that is not JSON
BindingFailed == channels.binding \in {"error", "okText", "errorText", "throws"}

\* the channels that were asked and answered with a 2xx status
SuccessStatus ==
    {i \in 1..Len(TheDelivery.sent) :
        IF TheDelivery.sent[i].channel = "EVENT_HANDLER"
        THEN channels.binding \in {"ok", "okText"}
        ELSE channels.http = "ok"}

\* the requests go out in order, with one payload, and the engagement is
\* marked and counted by what the call returned
FallbackAndMarker ==
    LET payload == Payload(brandSlug, etype, OnlyEvent) IN
    /\ BindingFailed
          => TheDelivery.sent = <<[channel |-> "EVENT_HANDLER", body |-> payload],
                                 [channel |-> "HTTP", body |-> payload]>>
    /\ channels.binding = "ok"
          => TheDelivery.sent = <<[channel |-> "EVENT_HANDLER", body |-> payload]>>
    /\ ~TheDelivery.thrown
    /\ result.rewarded = (IF TheDelivery.returned THEN 1 ELSE 0)
    /\ result.failed = (IF TheDelivery.returned THEN 0 ELSE 1)
    /\ ProcessedKey(OnlyEvent) \in kvProcessed

C12_FailedDispatchGoesOn ==
    [][/\ (pc \in {"loop", "tweets"} /\ sendCount' # sendCount)
            => /\ pc' = pc
               /\ Dispatched' = Dispatched + 1
               /\ IF pc = "loop" THEN next' = next + 1
                  ELSE nextLiker' = nextLiker + 1
       /\ (pc = "loop" /\ pc' # "loop") => next > Len(tweets)]_vars

\* two dispatches of one batch returned false and the loop went on to the
\* third engagement
C12_Witness ==
    /\ pc = "loop"
    /\ Len(tweets) >= 3
    /\ next = 3
    /\ result.failed = 2

\* the upstream requests of the running poll that were refused
Refused(api, statuses) ==
    {i \in 1..Len(requests) :
        requests[i].api = api /\ requests[i].status \in statuses}

\* C16: a mention or reply poll of the router whose search is answered with
\* a non-2xx status has made that one request and no other, is over, holds
\* exactly the error string of that status in its result, has found and
\* dispatched nothing, and the step that receives the answer and the rest of
\* the invocation leave every cursor, processed marker and dispatch count as
\* they were.
C16_SearchErrorEndsPoll ==
    [][(brandSlug \in Tenants /\ Refused("search", ErrorStatus)' # {})
          => /\ pc' = "done"
             /\ Len(requests') = 1
             /\ result'.errors = <<<<"Twitter API error", requests'[1].status>>>>
             /\ result'.found = 0
             /\ Dispatched' = 0
             /\ kvHighwater' = kvHighwater
             /\ kvProcessed' = kvProcessed
             /\ sendCount' = sendCount]_vars

\* the second mention or reply poll of a tenant was answered 429 and ended
\* with the cursor and the markers the first poll left
C16_Witness ==
    /\ brandSlug \in Tenants
    /\ polls = 2
    /\ pc = "done"
    /\ requests = <<Request("search", 429)>>
    /\ kvHighwater[CursorKey] # Null
    /\ kvProcessed # {}

\* C17: a like or retweet poll whose request for the actors of a brand post
\* is answered 429 or with another non-403 error makes no further upstream
\* request, and returns with the failure in the errors of its result.
C17_ActorErrorAborts ==
    \A i \in Refused("actors", ErrorStatus \ {403}) :
        /\ i = Len(requests)
        /\ pc = "done" => result.errors # <<>>

\* the tenant's stored config parses, is active, and holds a credential that
\* decrypts and a handle: pollAllEngagements reaches its polls
Ready(t) ==
    /\ stored[t] # "corrupt"
    /\ IsActive(stored[t])
    /\ getDecryptedBearerToken(stored[t], privateKey) # Null
    /\ HasHandle(stored[t])

\* the entries of the cycle's results for tenant t
Entries(t) == {i \in 1..Len(results) : results[i].brand = t}

\* the outcome of a type is the result its poll returned
Completed(outcome) == "failed" \in DOMAIN outcome

\* the outcome of a type whose poll was answered 403
Upgrade(outcome) == outcome.errors = <<ElevatedAccessMessage>>

\* C13: in a scheduled cycle a 403 answer to a likes or retweets poll ends
\* that poll at once with exactly the upgrade message in its errors; and when
\* the cycle is over every tenant that is active and has credentials has one
\* entry of status success that holds, for each of the four types, the
\* returned result of its poll (or, for a mention or reply poll that a store
\* failure ended, the caught error), the four polls of each such tenant
\* having been started whatever 403 any of them met.
C13_ForbiddenEndsOneType ==
    /\ Refused("actors", {403}) # {}
          => /\ Refused("actors", {403}) = {Len(requests)}
             /\ pc = "done"
             /\ Upgrade(result)
    /\ cycle = "end"
          => /\ polls = Cardinality(TypeOrderSet) * Cardinality({t \in Tenants : Ready(t)})
             /\ \A t \in Tenants :
                    Ready(t) =>
                        /\ Cardinality(Entries(t)) = 1
                        /\ \A i \in Entries(t) :
                               /\ results[i].status = "success"
                               /\ "error" \notin DOMAIN results[i]
                               /\ \A ty \in Types :
                                      \/ Completed(results[i].results[ty])
                                      \/ /\ ty \in CursorTypes
                                         /\ results[i].results[ty]
                                               = [InitialResult EXCEPT
                                                    !.errors = <<(<<"thrown">>)>>]

\* the cycle is over; the likes poll of the first tenant was answered 403, its
\* mention and retweets polls returned, and the second tenant's mention poll
\* rewarded an engagement and its likes poll returned
C13_Witness ==
    /\ cycle = "end"
    /\ Len(results) = 2
    /\ \A i \in 1..2 : results[i].status = "success" /\ "error" \notin DOMAIN results[i]
    /\ results[1].brand = "acme"
    /\ Upgrade(results[1].results["like"])
    /\ Completed(results[1].results["retweet"])
    /\ Completed(results[1].results["mention"])
    /\ results[2].brand = "globex"
    /\ results[2].results["mention"].rewarded = 1
    /\ Completed(results[2].results["like"])

\* the tenants of the cycle that are no longer in brandList
Passed == {BrandKeys[i] : i \in 1..(Len(BrandKeys) - Len(brandList))}

\* the poll of a type threw and pollAllEngagements caught it
Caught(outcome) == outcome = [InitialResult EXCEPT !.errors = <<(<<"thrown">>)>>]

\* what scheduled() leaves in results for tenant t when t is handled alone
Handled(t) ==
    IF stored[t] = "corrupt"
    THEN /\ Cardinality(Entries(t)) = 1
         /\ \A i \in Entries(t) : results[i] = [brand |-> t, status |-> "error"]
    ELSE IF ~IsActive(stored[t])
    THEN Entries(t) = {}
    ELSE /\ Cardinality(Entries(t)) = 1
         /\ \A i \in Entries(t) :
                /\ results[i].status = "success"
                /\ Ready(t) <=> "error" \notin DOMAIN results[i]
                /\ \A ty \in Types :
                       LET outcome == results[i].results[ty]
                       IN  IF Ready(t)
                           THEN Completed(outcome) \/ Caught(outcome)
                           ELSE outcome = InitialResult

\* C14: throughout a scheduled cycle the brands still to handle are a tail
\* of the listed brands, and every tenant the loop has passed has been
\* handled as if it were alone, whatever happened to the tenants before it:
\* a tenant with an unparsable config has one entry of status error, an
\* inactive tenant none, any other tenant one entry of status success that
\* holds for each type the returned result of its poll or the error of the
\* exception the poll threw; when the cycle is over every listed tenant has
\* been passed.
C14_FailureKeptToTenant ==
    cycle # "cron" =>
        /\ \E n \in 0..Len(BrandKeys) :
               brandList = SubSeq(BrandKeys, n + 1, Len(BrandKeys))
        /\ \A t \in Passed : Handled(t)
        /\ cycle = "end" => Passed = Tenants

\* the first tenant's config does not parse and is recorded as an error; the
\* second tenant, listed after it, was polled: its mention poll threw and
\* was caught, its reply poll rewarded an engagement
C14_Witness ==
    /\ cycle = "end"
    /\ stored["acme"] = "corrupt"
    /\ Len(results) = 2
    /\ results[1] = [brand |-> "acme", status |-> "error"]
    /\ results[2].brand = "globex"
    /\ results[2].status = "success"
    /\ Caught(results[2].results["mention"])
    /\ results[2].results["reply"].rewarded = 1

\* no cursor, processed marker or actor cache of tenant t is in the store
NoKeyOf(t) ==
    /\ \A ty \in CursorTypes : kvHighwater[<<t, ty>>] = Null
    /\ \A k \in kvProcessed : k[1] # t
    /\ \A k \in DOMAIN kvChecked : k[1] # t

\* no reward event of tenant t was handed to a channel
NoDispatchOf(t) == \A k \in DOMAIN sendCount : k[1] # t

\* C15: in a scheduled cycle no poll ever runs for a tenant whose stored
\* config has is_active false: no upstream request is made on its behalf, no
\* reward event of it is dispatched, and the store holds no cursor, processed
\* marker or actor cache of it; the cycle's results have no entry for it.
C15_InactiveUntouched ==
    \A t \in Tenants :
        stored[t] = "inactive" =>
            /\ ~(cycle = "polls" /\ brandSlug = t)
            /\ brandSlug = t => requests = <<>> /\ pc = "idle"
            /\ NoDispatchOf(t)
            /\ NoKeyOf(t)
            /\ Entries(t) = {}

\* the cycle is over: the first tenant is inactive and was skipped, the
\* second was polled, its mentions rewarded and its cursor written
C15_Witness ==
    /\ cycle = "end"
    /\ stored["acme"] = "inactive"
    /\ Len(results) = 1
    /\ results[1].brand = "globex"
    /\ ~NoDispatchOf("globex")
    /\ kvHighwater[<<"globex", "mention">>] # Null
    /\ polls = Len(TypeOrder)

\* the stored config of tenant t parses and is active, but it holds no
\* credential, or one that does not decrypt, or the deployment has no
\* private key
NoCredential(t) ==
    \/ stored[t] \in {"noToken", "badToken"}
    \/ ~privateKey /\ stored[t] \in {"noHandle", "ok"}

\* C18: for a tenant without a usable credential (none stored, no private
\* key in the deployment, or a stored one that does not decrypt) no upstream
\* request is ever made, no reward event dispatched and no cursor, marker or
\* cache written; a poll of it is never inside its loop and never throws: it
\* is over at once with the one error string `No bearer token configured`,
\* and in a scheduled cycle the tenant's entry is of status success, carries
\* the error `No valid bearer token` and four untouched per-type results.
C18_NoCredentialNoEffect ==
    \A t \in Tenants :
        NoCredential(t) =>
            /\ NoKeyOf(t)
            /\ NoDispatchOf(t)
            /\ brandSlug = t =>
                   /\ requests = <<>>
                   /\ pc \in {"idle", "done"}
                   /\ pc = "done" =>
                          result = [NoResult EXCEPT
                                      !.errors = <<(<<"No bearer token configured">>)>>]
            /\ cycle \notin {"off", "cron"} =>
                   /\ ~(cycle = "polls" /\ brandSlug = t)
                   /\ t \in Passed <=> Entries(t) # {}
                   /\ \A i \in Entries(t) :
                          results[i] = [brand |-> t, status |-> "success",
                                        error |-> <<"No valid bearer token">>,
                                        results |-> NoTypeResults]

\* the cycle is over: the first tenant's credential does not decrypt and its
\* entry carries the error, the second tenant was polled and rewarded
C18_Witness ==
    /\ cycle = "end"
    /\ stored["acme"] = "badToken"
    /\ privateKey
    /\ Len(results) = 2
    /\ results[1].brand = "acme"
    /\ results[1].error = <<"No valid bearer token">>
    /\ results[2].brand = "globex"
    /\ ~NoDispatchOf("globex")
    /\ ~NoKeyOf("globex")

\* the part of a store that is not under tenant t and type ty
OtherCursors(highwater, t, ty) ==
    [k \in CursorKeys \ {<<t, ty>>} |-> highwater[k]]
OtherMarkers(processed, t, ty) ==
    {k \in processed : ~(k[1] = t /\ k[2] = ty)}
OtherCaches(checked, t, ty) ==
    [k \in {c \in DOMAIN checked : ~(c[1] = t /\ c[2] = ty)} |-> checked[k]]
OtherSends(count, t, ty) ==
    [k \in {c \in DOMAIN count : ~(c[1] = t /\ c[2] = ty)} |-> count[k]]

\* C20: every step of a scheduled cycle leaves unchanged each cursor, each
\* processed marker and each actor cache that is not keyed by the tenant and
\* the engagement type of the poll that is running, and dispatches no event
\* of another tenant or type; a mention or reply poll that starts its loop
\* took its since_id from the cursor of its own tenant and type, and an
\* engagement is dispatched only when the marker of its own tenant and type
\* is absent.
C20_OnlyOwnKeys ==
    [][/\ OtherCursors(kvHighwater', brandSlug, etype)
             = OtherCursors(kvHighwater, brandSlug, etype)
       /\ OtherMarkers(kvProcessed', brandSlug, etype)
             = OtherMarkers(kvProcessed, brandSlug, etype)
       /\ OtherCaches(kvChecked', brandSlug, etype)
             = OtherCaches(kvChecked, brandSlug, etype)
       /\ OtherSends(sendCount', brandSlug, etype)
             = OtherSends(sendCount, brandSlug, etype)
       /\ (pc = "idle" /\ pc' = "loop")
             => lastTweetId' = kvHighwater[<<brandSlug, etype>>]
       /\ \A k \in DOMAIN sendCount' :
             Sends(sendCount', k) > Sends(sendCount, k) => k \notin kvProcessed
      ]_vars

\* the second tenant's mention poll has written its cursor and a marker
\* while the store holds the cursor and a marker of the first tenant's
\* mention poll, which are still what that poll left
C20_Witness ==
    /\ cycle = "polls"
    /\ brandSlug = "globex"
    /\ etype = "mention"
    /\ pc = "done"
    /\ kvHighwater[<<"globex", "mention">>] # Null
    /\ kvHighwater[<<"acme", "mention">>] # Null
    /\ \E k \in kvProcessed : k[1] = "acme"
    /\ \E k \in kvProcessed : k[1] = "globex"
    /\ Len(results) = 1
    /\ results[1].brand = "acme"
    /\ results[1].results["mention"].found = 1

\* C19: while two invocations of the same mention or reply poll overlap,
\* an invocation's read of a marker gives `not processed` only when no
\* invocation has written the marker yet, an invocation dispatches only the
\* engagements for which its own read gave `not processed`, and the number
\* of dispatches of an engagement is the number of invocations that have
\* dispatched it, each of them once: a second dispatch of an engagement is
\* always the other invocation's, made after a read that came before the
\* first marker write.  The state in which both have dispatched the same
\* engagement before either wrote its marker is reachable (C19_Witness).
C19_DispatchFollowsOwnRead ==
    [][\A i \in Invocations :
          /\ \A x \in invocations'[i].read \ invocations[i].read :
                <<brandSlug, etype, x>> \notin kvProcessed
          /\ invocations'[i].sent \subseteq invocations'[i].read
          /\ \A k \in DOMAIN sendCount' :
                sendCount'[k]
                    = Cardinality({j \in Invocations : k[3] \in invocations'[j].sent})
      ]_vars

\* both invocations have read `not processed` for the same engagement and
\* dispatched it, and neither has written the marker yet
C19_Witness ==
    \E x \in OverlapIds :
        /\ Sends(sendCount, <<brandSlug, etype, x>>) = 2
        /\ <<brandSlug, etype, x>> \notin kvProcessed
        /\ \A i \in Invocations :
              /\ invocations[i].pc = "put"
              /\ invocations[i].tweets[invocations[i].next] = x
              /\ x \in invocations[i].read

\* C30: in every state of a poll, and so in the result it returns, rewarded
\* plus failed is at most found; inside the loop of a mention or reply poll
\* of the router found is the length of the batch and rewarded, failed and
\* the candidates skipped as already processed add up to the candidates
\* the loop has gone through; and when such a poll is over, found is
\* rewarded plus failed plus the number of skipped candidates.
C30_ResultCounts ==
    /\ result.rewarded + result.failed <= result.found
    /\ (brandSlug \in Tenants /\ etype \in CursorTypes /\ pc = "loop")
          => /\ result.found = Len(tweets)
             /\ result.rewarded + result.failed + Cardinality(skipped) = next - 1
    /\ (brandSlug \in Tenants /\ etype \in CursorTypes /\ pc = "done")
          => result.found
                = result.rewarded + result.failed + Cardinality(skipped)

\* a mention or reply poll of the router is over: of its three candidates
\* one was rewarded, one failed and one was skipped as already processed
C30_Witness ==
    /\ brandSlug \in Tenants
    /\ etype \in CursorTypes
    /\ pc = "done"
    /\ result.found = 3
    /\ result.rewarded = 1
    /\ result.failed = 1
    /\ Cardinality(skipped) = 1

\* C25: a step between two invocations that changes a cursor (POST /reset)
\* sets the mention and reply cursors of the endpoint's tenant to absent and
\* leaves every other cursor, every processed marker, every actor cache and
\* every dispatch count as it was; a mention or reply poll that starts
\* without a cursor under its key runs as a first run, with no since_id and
\* at most FirstRunLimit candidates; and no step dispatches an engagement
\* that has been dispatched before, reset or not.
C25_ResetOnlyCursors ==
    [][/\ (pc = "idle" /\ pc' = "idle" /\ kvHighwater' # kvHighwater)
             => /\ \A k \in CursorKeys :
                      kvHighwater'[k]
                          = IF k[1] = brandSlug THEN Null ELSE kvHighwater[k]
                /\ UNCHANGED <<kvProcessed, kvChecked, sendCount>>
       /\ (/\ pc = "idle"
           /\ pc' = "loop"
           /\ etype \in CursorTypes
           /\ kvHighwater[<<brandSlug, etype>>] = Null)
             => /\ lastTweetId' = Null
                /\ Len(tweets') <= FirstRunLimit
       /\ \A k \in DOMAIN sendCount' :
             sendCount'[k] # Sends(sendCount, k) => Sends(sendCount, k) = 0
      ]_vars

\* the second poll of the endpoint ran as a first run although the first
\* had dispatched: the cursor was reset in between.  Its page of four was
\* cut to three, and the candidates dispatched before the reset were
\* skipped, their dispatch count still one
C25_Witness ==
    /\ etype \in CursorTypes
    /\ brandSlug \in Tenants
    /\ polls = 2
    /\ pc = "done"
    /\ lastTweetId = Null
    /\ Len(upstream) = 4
    /\ Len(tweets) = FirstRunLimit
    /\ skipped # {}
    /\ \A x \in skipped :
          /\ <<brandSlug, etype, x>> \in kvProcessed
          /\ Sends(sendCount, <<brandSlug, etype, x>>) = 1

\* C26: whenever the store holds the cached list of the actors of a post
\* together with a processed marker of the same tenant and type, the
\* expirationTtl the list was put with is greater than the one the marker
\* was put with.
C26_CacheOutlivesMarker ==
    \A c \in DOMAIN kvChecked :
        \A k \in kvProcessed :
            (k[1] = c[1] /\ k[2] = c[2]) => CheckedTtl > ProcessedTtl

\* the poll of type ty was called for tenant t in this cycle: the tenant's
\* entry holds the poll's returned result or the error it threw
Attempted(t, ty) ==
    \E i \in Entries(t) :
        /\ "results" \in DOMAIN results[i]
        /\ \/ Completed(results[i].results[ty])
           \/ Caught(results[i].results[ty])

\* scheduled() has gone through its loop and no poll is left running
Over ==
    /\ cycle = "end"
    /\ brandList = <<>>
    /\ pc = "idle"

\* C22 as stated: the cycle comes to its end, and then every tenant whose
\* stored config parses and is active has had each of its four types polled.
C22_EveryActiveTenantAttempted ==
    <>(/\ Over
       /\ \A t \in Tenants :
             stored[t] \notin {"corrupt", "inactive"}
                 => \A ty \in Types : Attempted(t, ty))

\* C22, amended: when every call comes back, the cycle comes to its end and
\* stays there with no poll running and no exception pending, whatever the
\* stored configs, the private key, the upstream answers and the outcomes of
\* the dispatches; by then every tenant that is active and holds a usable
\* credential and a handle has had each of its four types polled, and no
\* type of any other tenant was polled.
C22_CycleTerminates ==
    <>[](/\ Over
         /\ \A t \in Tenants :
               IF Ready(t)
               THEN \A ty \in Types : Attempted(t, ty)
               ELSE \A ty \in Types : ~Attempted(t, ty))

\* the cycle is over: the first tenant's credential did not decrypt, so none
\* of its types was polled; the second tenant had its four types polled, a
\* dispatch of its mention poll failed and its likes poll was answered 403
C22_Witness ==
    /\ Over
    /\ stored["acme"] = "badToken"
    /\ \A ty \in Types : ~Attempted("acme", ty) /\ Attempted("globex", ty)
    /\ \E i \in Entries("globex") :
          /\ Completed(results[i].results["mention"])
          /\ results[i].results["mention"].failed = 1
          /\ Upgrade(results[i].results["like"])

\* C23: a mention poll that started with a cursor and writes a new one
\* leaves no engagement the upstream holds between the old cursor and the
\* new one without a processed marker: what the cursor passes has been
\* dispatched or was found processed.
C23_CursorPassesOnlyHandled ==
    [][(lastTweetId # Null /\ kvHighwater' # kvHighwater)
          => \A n \in 1..posted :
                (/\ n > BigInt(lastTweetId)
                 /\ n <= BigInt(kvHighwater'[<<brandSlug, etype>>]))
                    => <<brandSlug, etype, IdOf(n)>> \in kvProcessed'
      ]_vars

\* the stored text is enc:v1:<payload> with a payload that is a box sealed
\* for the deployment's key
WellFormed(encrypted) ==
    /\ Len(encrypted) = 3
    /\ encrypted[1] = "enc"
    /\ encrypted[2] = "v1"
    /\ encrypted[3] = "sealed"

\* C24: for every stored credential that begins with enc: and is not a
\* well-formed v1 blob sealed for the deployment's key (no version part, a
\* version other than v1, more or fewer than three parts, a payload that
\* does not authenticate or cannot be cut into key, nonce and box),
\* decryptCredential throws and returns nothing, and
\* getDecryptedBearerToken gives no token, with or without private key.
C24_FailClosed ==
    (/\ vault.asked
     /\ vault.encrypted # Null
     /\ Len(vault.encrypted) >= 2
     /\ vault.encrypted[1] = "enc"
     /\ ~WellFormed(vault.encrypted))
        => /\ vault.outcome.thrown
           /\ "returned" \notin DOMAIN vault.outcome
           /\ vault.token = Null

\* the vault was asked for enc:v2:<a sealed box> with the private key set:
\* decryptCredential threw `Unsupported version` and there is no token
C24_Witness ==
    /\ vault.asked
    /\ privateKey
    /\ vault.encrypted = <<"enc", "v2", "sealed">>
    /\ vault.outcome = Thrown(<<"Failed to decrypt", "Unsupported version", "v2">>)
    /\ vault.token = Null

\* C21: in the quote, hashtag and thread polls an engagement whose
\* dispatch failed is marked processed by the step that dispatched it, and
\* no step dispatches an engagement that was dispatched before.
C21_FailedDispatchMarked ==
    [][\A key \in DOMAIN polling'.sends :
          Dispatches(polling'.sends, key) > Dispatches(polling.sends, key)
              => /\ key \in polling'.kv
                 /\ Dispatches(polling.sends, key) = 0
      ]_vars

\* the streak service answered 2xx
Answered2xx ==
    /\ streak.called
    /\ streak.answer.kind = "status"
    /\ streak.answer.status >= 200
    /\ streak.answer.status <= 299

\* the body of the answer is a JSON object
ObjectBody == streak.answer.body.json = "object"

\* C27 as stated: recordTwitterEngagement never throws; on a non-2xx
\* answer or a failed request it returns the default result; on every 2xx
\* answer it returns success true with the multiplier and the streak the
\* service gave.
C27_DefaultsOrServiceValues ==
    streak.called =>
        /\ ~streak.outcome.thrown
        /\ ~Answered2xx => streak.outcome.returned = DefaultStreakResult
        /\ Answered2xx =>
              /\ streak.outcome.returned.success
              /\ (ObjectBody /\ streak.answer.body.multiplier # Absent) =>
                    streak.outcome.returned.multiplier
                        = streak.answer.body.multiplier
              /\ (ObjectBody /\ streak.answer.body.currentStreak # Absent) =>
                    streak.outcome.returned.currentStreak
                        = streak.answer.body.currentStreak

\* C27, amended: recordTwitterEngagement never throws; on a non-2xx answer,
\* a failed request, or a 2xx answer whose body is no JSON or is null, it
\* returns the default result; on any other 2xx answer it returns success
\* true with the service's multiplier, or 1.0 where that is absent or
\* zero, and the service's streak, or 0 where that is absent.
C27_NeverThrows ==
    streak.called =>
        /\ ~streak.outcome.thrown
        /\ ~Answered2xx => streak.outcome.returned = DefaultStreakResult
        /\ (Answered2xx /\ streak.answer.body.json \in {"invalid", "null"})
              => streak.outcome.returned = DefaultStreakResult
        /\ (Answered2xx /\ streak.answer.body.json = "number")
              => streak.outcome.returned
                    = [multiplier |-> 1, currentStreak |-> 0, success |-> TRUE]
        /\ (Answered2xx /\ ObjectBody) =>
              /\ streak.outcome.returned.success
              /\ streak.outcome.returned.multiplier
                    = IF streak.answer.body.multiplier \in {Absent, 0}
                      THEN 1 ELSE streak.answer.body.multiplier
              /\ streak.outcome.returned.currentStreak
                    = IF streak.answer.body.currentStreak = Absent
                      THEN 0 ELSE streak.answer.body.currentStreak

\* the service answered 200 with a body that is no JSON: nothing was
\* thrown and the default result came back
C27_Witness ==
    /\ streak.called
    /\ streak.answer = [kind |-> "status", status |-> 200,
                        body |-> [json |-> "invalid"]]
    /\ ~streak.outcome.thrown
    /\ streak.outcome.returned
          = [multiplier |-> 1, currentStreak |-> 0, success |-> FALSE]

\* a step that takes in a POST for /trigger/<type> with a type outside
\* mentions, replies, likes, retweets
RejectedTrigger ==
    /\ inbound' # inbound
    /\ inbound.phase # "polling"
    /\ inbound'.request.method = "POST"
    /\ Len(inbound'.request.path) = 2
    /\ inbound'.request.path[1] = "trigger"
    /\ inbound'.request.path[2] \notin {"mentions", "replies", "likes", "retweets"}

\* the step started no poll: no upstream request, no dispatch, no store
\* write, and none to come for this request
NoPollStarted ==
    /\ inbound'.phase = "answered"
    /\ pc' = "idle"
    /\ UNCHANGED <<kvHighwater, kvProcessed, kvChecked, sendCount, requests,
                   polls>>

InvalidEventType ==
    /\ inbound'.response.status = 400
    /\ inbound'.response.body.success = FALSE
    /\ inbound'.response.body.error[1] = "Invalid event type"

\* the request has reached the routes: always on the single-tenant worker,
\* on the router when the host names a tenant whose stored configuration
\* parses (any other host is answered before the routes are looked at)
ReachesRoutes ==
    \/ brandSlug = Handle
    \/ /\ inbound'.request.host = "tenant"
       /\ stored[brandSlug] # "corrupt"

\* C28: a POST /trigger/<type> with a type outside the accepted set starts
\* no poll (no upstream request, no dispatch, no store write), and where
\* it reaches the routes it is answered 400 with an `Invalid event type`
\* error.
C28_InvalidTypeStartsNoPoll ==
    [][RejectedTrigger =>
          /\ NoPollStarted
          /\ ReachesRoutes => InvalidEventType
      ]_vars

\* after a poll has left a marker in the store, POST /trigger/invalid on
\* the tenant's host was answered 400 and the worker is idle
C28_Witness ==
    /\ inbound.phase = "answered"
    /\ inbound.request = [method |-> "POST", host |-> "tenant",
                          path |-> <<"trigger", "invalid">>]
    /\ inbound.response.status = 400
    /\ pc = "idle"
    /\ kvProcessed # {}

\* C29: a POST /trigger/quotes that reaches the routes is answered 200 with
\* success true and a message naming quotes, after the quotes poll has run.
C29_QuotesTriggerAccepted ==
    (/\ inbound.phase = "answered"
     /\ inbound.request.method = "POST"
     /\ inbound.request.path = <<"trigger", "quotes">>
     /\ inbound.request.host = "tenant"
     /\ stored[brandSlug] # "corrupt")
        => /\ inbound.response.status = 200
           /\ inbound.response.body.success = TRUE
           /\ inbound.response.body.message[1] = "quotes"

\* the poll that is running or has just returned met no upstream error
NoUpstreamError ==
    /\ result.errors = <<>>
    /\ \A i \in 1..Len(requests) : requests[i].status = 200

\* C31: in a mention or reply poll without upstream error every tweet of
\* the batch that the loop has passed, and after the loop every tweet of
\* the batch, has its processed marker under the poll's tenant and type; in
\* a like or retweet poll every new actor of the current post that the
\* loop has passed has it.
C31_CandidatesMarked ==
    NoUpstreamError =>
        /\ (etype \in CursorTypes /\ pc \in {"loop", "done"}) =>
              \A i \in 1..Len(tweets) :
                  (i < next \/ pc = "done")
                      => <<brandSlug, etype, tweets[i]>> \in kvProcessed
        /\ (etype \in ActorTypes /\ pc \in {"tweets", "done"} /\ nextTweet > 1) =>
              \A i \in 1..Len(likers) :
                  (i < nextLiker \/ pc = "done")
                      => <<brandSlug, etype,
                           EventId(brandTweets[nextTweet - 1], likers[i])>>
                             \in kvProcessed

\* a like poll has returned without error after two new likers, one of
\* them with a failed dispatch
C31_Witness ==
    /\ pc = "done"
    /\ etype = "like"
    /\ NoUpstreamError
    /\ Len(likers) = 2
    /\ result.found = 2
    /\ result.failed = 1
    /\ result.rewarded = 1

\* C32: no step of a like or retweet poll dispatches a (tenant, post, actor)
\* triple whose processed marker is in the store, whether the actor-id
\* cache of the post holds the actor, lacks it, or has expired.
C32_MarkedActorNotDispatched ==
    [][\A key \in kvProcessed :
          Sends(sendCount', key) = Sends(sendCount, key)]_vars

\* an actor who was dispatched and marked, and whom the cache of the post
\* did not hold, came back as new in the fetched list: the poll passed the
\* actor by without a dispatch
C32_Witness ==
    /\ pc = "done"
    /\ etype \in ActorTypes
    /\ skipped # {}
    /\ \A id \in skipped :
          /\ <<brandSlug, etype, id>> \in kvProcessed
          /\ Sends(sendCount, <<brandSlug, etype, id>>) = 1


\* the actors of the post in hand that the loop has not reached and that no
\* marker is there for
Undispatched ==
    {likers[i] : i \in {j \in nextLiker..Len(likers) :
        ~AlreadyProcessed(kvProcessed,
            <<brandSlug, etype, EventId(brandTweets[nextTweet - 1], likers[j])>>)}}

\* the actors a poll that fetches them again would not report as new
NotNewAgain ==
    Range(Cached(kvChecked, <<brandSlug, etype, brandTweets[nextTweet - 1]>>))

\* C33: when a like or retweet poll stops after the actor-id cache of a post
\* was rewritten and before every new actor of that post was dispatched, the
\* actors not dispatched are still new for a later poll: none of them is in
\* the cached list the next fetch is compared with.
C33_UndispatchedStaysNew ==
    (pc = "stopped" /\ etype \in ActorTypes /\ nextTweet > 1)
        => Undispatched \cap NotNewAgain = {}


\* C35: within one call of sendRewardEvent the HTTP fallback is sent only
\* when the internal channel did not answer with a 2xx status, so at most one
\* of the requests of a dispatch is answered with a success status: the
\* reward service never accepts the same event on both channels.
C35_AcceptedOnOneChannel ==
    DispatchMade =>
        /\ Cardinality(SuccessStatus) <= 1
        /\ (\E i \in 1..Len(TheDelivery.sent) : TheDelivery.sent[i].channel = "HTTP")
              => channels.binding \notin {"ok", "okText"}


\* the step is a request for the actors of a post that the upstream refused
ActorFetchFailed ==
    /\ Len(requests') = Len(requests) + 1
    /\ requests'[Len(requests')].api = "actors"
    /\ requests'[Len(requests')].status # 200

\* C34: when the upstream refuses the actor-list request of getTweetLikers or
\* getTweetRetweeters (403 or any other non-2xx status), the cached actor ids
\* of every post are what they were and the poll is handed no new actor.
C34_FailedFetchKeepsCache ==
    [][ActorFetchFailed
          => /\ kvChecked' = kvChecked
             /\ nextLiker' > Len(likers')
             /\ kvProcessed' = kvProcessed
             /\ sendCount' = sendCount]_vars

\* a fetch for a post with cached actors was refused with a status other
\* than 403: the cache is there and the poll has no actor to handle
C34_Witness ==
    /\ pc = "tweets"
    /\ response = "error"
    /\ nextTweet > 1
    /\ likers = <<>>
    /\ requests[Len(requests)].api = "actors"
    /\ requests[Len(requests)].status \notin {200, 403}
    /\ Len(Cached(kvChecked, <<brandSlug, etype, brandTweets[nextTweet - 1]>>)) = 2

\* the fetch was refused with 403: the poll has ended with the cache there
C34_Witness403 ==
    /\ pc = "done"
    /\ response = "error"
    /\ requests[Len(requests)].status = 403
    /\ Len(Cached(kvChecked, <<brandSlug, etype, brandTweets[nextTweet]>>)) = 2


\* C36: the stored cursor of a tenant and type never decreases in numeric
\* order, also when two invocations that poll this tenant and type overlap:
\* no step of either invocation lowers or removes the cursor.
C36_CursorMonotonicOverlapped ==
    [][\A ck \in CursorKeys :
          /\ BigInt(kvHighwater'[ck]) >= BigInt(kvHighwater[ck])
          /\ kvHighwater[ck] # Null => kvHighwater'[ck] # Null]_vars


\* what the workers keep in KV, with the dispatches made
Store == <<kvHighwater, kvProcessed, kvChecked, sendCount>>

\* a mention or reply poll whose search was answered and whose batch, after
\* the filter, is empty
EmptyBatch ==
    /\ etype \in CursorTypes
    /\ pc # "idle"
    /\ requests = <<Request("search", 200)>>
    /\ tweets = <<>>

\* the step is the start of such a poll, or a step of it
OfEmptyBatch == (pc = "idle" /\ EmptyBatch') \/ EmptyBatch

\* the poll returns at once with a result of zeros
ReturnsZeros ==
    (pc = "idle" /\ EmptyBatch') => (pc' = "done" /\ result' = NoResult)

ClaimKeys == {claimKey(item) : item \in PollingItems}

\* the counter stored under a claim key, 0 when there is none
StoredClaims(key) == Cardinality({c \in polling.claims : c[1] = key})

Participants ==
    {processedKey(polling.kind, polling.tweets[i]) : i \in 1..Len(polling.tweets)}

\* C39: pollThreadParticipation handles unique participants: the count of
\* thread replies found is the number of distinct participants, and in one
\* poll a user with several replies in one conversation gets at most one
\* dispatch attempt for that conversation (stated for the first poll of a
\* behaviour, whose dispatches are all that were made).
C39_UniqueParticipants ==
    (polling.kind = "tweet_thread_reply" /\ polling.pc = "loop" /\ polling.polls = 0)
        => /\ polling.result.found = Cardinality(Participants)
           /\ \A key \in Participants : Dispatches(polling.sends, key) <= 1

====
